---- MODULE Spec2Model ----
(***************************************************************************)
(* Keep-alive ("hangup") workers of skybook: the config store, the         *)
(* lifecycle API and the periodic sweep, in the three forms the            *)
(* repository holds:                                                       *)
(*   "multi"  - src/unnamed/part_004 (also part_003 lines 1-762): many     *)
(*              configs per user, no token, executeAllHangupTasks          *)
(*   "single" - src/worker.ts: one config per user, token in the request   *)
(*   "offset" - src/unnamed/part_003 lines 763-1860: many configs per      *)
(*              user, token, executionOffset and elapsed-time guard        *)
(* Strings that take part in key building are sequences of ':'-separated   *)
(* segments, so that "stv_config:" + userId + ":" + configId is sequence   *)
(* concatenation and a prefix listing is a segment-prefix test.            *)
(***************************************************************************)
EXTENDS Integers, Sequences, FiniteSets, TLC

VARIABLES
    variant,    \* which worker is deployed
    kv,         \* KV_BINDING: key -> stored value (config keys only)
    now,        \* wall clock, in seconds
    nextId,     \* number of configIds generated so far
    sweep,      \* per sweep invocation: position and local variables
    tog,        \* the toggle handler in flight (multi)
    resp,       \* the last HTTP response sent
    auth,       \* KV_BINDING under "auth:": userId -> stored UserAuth
    nextTok,    \* number of user tokens generated so far
    norm,       \* the analytics path under normalization and its results
    call        \* the analytics request in flight and what it did so far

vars == <<variant, kv, now, nextId, sweep, tog, resp, auth, nextTok, norm, call>>

\* what a sweep step leaves alone besides the store
apiVars == <<nextId, tog, resp, auth, nextTok, norm, call>>

----------------------------------------------------------------------------
(* Bounds of the model *)

MaxInitKeys == 2      \* stored configs the deployment starts with
MaxConfigs == 1       \* configs created through the API
MaxSweeps == 2        \* invocations of the sweep, scheduled and manual together
MaxCycles == 1        \* five-minute periods the clock may advance
MaxSkew == 1          \* seconds the clock may advance after a cycle starts
MaxTokens == 2        \* user tokens generated after the initial ones

(* Program constants *)

SecondsPerMinute == 60
GuardMinutes == 5

Variants == {"multi", "single", "offset"}
SweepIds == {"cron", "manual"}

\* user ids as ':'-separated segments: "u" and "u:v"
UserIds == {<<"u">>, <<"u", "v">>}
Cookies == {"ck1", "ck2"}

----------------------------------------------------------------------------
(* Values *)

Merge(a, b) ==
    [f \in DOMAIN a \cup DOMAIN b |-> IF f \in DOMAIN b THEN b[f] ELSE a[f]]

\* f with x mapped to y
Assoc(f, x, y) == [z \in DOMAIN f \cup {x} |-> IF z = x THEN y ELSE f[z]]

Without(r, fs) == [f \in DOMAIN r \ fs |-> r[f]]

Has(r, f) == f \in DOMAIN r

\* a stored string that JSON.parse rejects
Corrupt == [corrupt |-> TRUE]

IsValidJson(v) == ~Has(v, "corrupt")

\* JS truthiness of config.isActive
IsActive(config) == Has(config, "isActive") /\ config.isActive

\* (config.executionCount || 0)
CountOf(config) == IF Has(config, "executionCount") THEN config.executionCount ELSE 0

\* generateConfigId(): the n-th id handed out (ids are fresh, ':'-free)
ConfigIdNames == <<"c1", "c2", "c3", "c4", "c5", "c6">>

ConfigIdOf(n) == ConfigIdNames[n]

ConfigPrefix == "stv_config"

\* `stv_config:${userId}:${configId}`
ConfigKey(userId, configId) == <<ConfigPrefix>> \o userId \o <<configId>>

\* `stv_config:${userId}`
SingleKey(userId) == <<ConfigPrefix>> \o userId

\* key.startsWith(`stv_config:${userId}:`)
HasUserPrefix(key, userId) ==
    LET p == <<ConfigPrefix>> \o userId
    IN  Len(key) > Len(p) /\ SubSeq(key, 1, Len(p)) = p

\* the segments of the model in the byte order of their strings
SegOrder == <<"", "c1", "c2", "c3", "c4", "c5", "c6", "stv_config", "u", "undefined", "v">>

SegRank(seg) == CHOOSE i \in 1..Len(SegOrder) : SegOrder[i] = seg

\* a < b in the lexicographic order KV list() returns keys in
KeyLess(a, b) ==
    \/ /\ Len(a) < Len(b)
       /\ SubSeq(b, 1, Len(a)) = a
    \/ \E i \in 1..Len(a) :
          /\ i <= Len(b)
          /\ SubSeq(a, 1, i - 1) = SubSeq(b, 1, i - 1)
          /\ SegRank(a[i]) < SegRank(b[i])

RECURSIVE SortKeys(_)
SortKeys(S) ==
    IF S = {} THEN <<>>
    ELSE LET m == CHOOSE k \in S : \A o \in S \ {k} : KeyLess(k, o)
         IN  <<m>> \o SortKeys(S \ {m})

\* env.KV_BINDING.list({ prefix: 'stv_config:' }).keys
ListAll(store) == SortKeys(DOMAIN store)

\* env.KV_BINDING.list({ prefix: `stv_config:${userId}:` }).keys
ListUser(store, userId) ==
    SortKeys({k \in DOMAIN store : HasUserPrefix(k, userId)})

\* env.KV_BINDING.put(key, value)
PutUnlessCounted(store, key, value) ==
    IF /\ key \in DOMAIN store
       /\ "executionCount" \in DOMAIN store[key] \cap DOMAIN value
       /\ store[key].executionCount >= value.executionCount
    THEN store
    ELSE [k \in DOMAIN store \cup {key} |-> IF k = key THEN value ELSE store[k]]

Put(store, key, value) ==
    [k \in DOMAIN store \cup {key} |-> IF k = key THEN value ELSE store[k]]

\* env.KV_BINDING.delete(key)
Delete(store, key) == [k \in DOMAIN store \ {key} |-> store[k]]

----------------------------------------------------------------------------
(* The outbound keep-alive call *)

\* result.substring(0, 100) keeps this many characters of the body
MaxEmbedded == 100

\* how far the sample bodies are from the limit
BodySlack == 1

\* lengths in characters of the sample bodies of the remote response
ShortBody == MaxEmbedded - BodySlack

LongBody == MaxEmbedded + BodySlack

\* what fetch() of the third-party endpoint can give: a network error, or a
\* response with a status, a body that may hold the not-logged-in marker
\* and may hold the word 'success' or 'ok'
Responses ==
    { [kind |-> "throw"],
      [kind |-> "resp", status |-> 200, marker |-> FALSE, word |-> TRUE,
       length |-> LongBody],
      [kind |-> "resp", status |-> 200, marker |-> TRUE, word |-> FALSE,
       length |-> ShortBody],
      [kind |-> "resp", status |-> 201, marker |-> FALSE, word |-> FALSE,
       length |-> ShortBody],
      [kind |-> "resp", status |-> 500, marker |-> FALSE, word |-> FALSE,
       length |-> LongBody] }

\* response.ok
Ok(r) == r.kind = "resp" /\ r.status >= 200 /\ r.status <= 299

\* part_004: const success = response.ok && (result.includes('success') ||
\* result.includes('ok') || response.status === 200)
SuccessMulti(r) == Ok(r) /\ (r.word \/ r.status = 200)

\* worker.ts, part_003: executeSTVOnlineRequest returns (does not throw)
RequestReturns(r) == r.kind = "resp" /\ Ok(r) /\ ~r.marker

\* the length of result.substring(0, 100) for a body of n characters
Substring(n) == IF n > MaxEmbedded THEN MaxEmbedded ELSE n

\* the lastResult strings, by their leading word and the number of
\* characters of the response body they embed
ResultSuccess(n) == [kind |-> "success", body |-> n]

ResultFailure(n) == [kind |-> "failure", body |-> n]

\* the message of the error caught, which holds nothing of the body
ResultError == [kind |-> "error", body |-> 0]

\* part_004 executeHangupRequest, try block after response.text()
TryUpdateMulti(config, r, t) ==
    Merge(config, [lastExecuted |-> t,
                   lastResult |-> IF SuccessMulti(r) THEN ResultSuccess(0)
                                  ELSE ResultFailure(Substring(r.length)),
                   executionCount |-> CountOf(config) + 1])

\* part_004 executeHangupRequest, catch block
CatchUpdateMulti(config, t) ==
    Merge(config, [lastExecuted |-> t,
                   lastResult |-> ResultError,
                   executionCount |-> CountOf(config) + 1])

\* worker.ts / part_003 executeHangupTasks, after executeSTVOnlineRequest returned
\* an update that starts the record's offset over
TryUpdateResetOffset(v, config, r, t) ==
    Merge(config, [lastExecuted |-> t, lastResult |-> ResultSuccess(0),
                   executionOffset |-> 0])

\* (worker.ts stores the whole result, part_003 its first 100 characters)
TryUpdateToken(v, config, r, t) ==
    Merge(config, [lastExecuted |-> t,
                   lastResult |-> ResultSuccess(IF v = "single" THEN r.length
                                                ELSE Substring(r.length))])

\* worker.ts / part_003 executeHangupTasks, catch block
CatchUpdateToken(config, t) ==
    Merge(config, [lastExecuted |-> t, lastResult |-> ResultFailure(0)])

\* part_003 shouldExecuteNow(lastExecuted)
ExecuteAlways(config, t) == TRUE

ShouldExecuteNow(config, t) ==
    \/ ~Has(config, "lastExecuted")
    \/ t - config.lastExecuted >= GuardMinutes * SecondsPerMinute

\* (config.executionOffset || 0)
OffsetOf(config) == IF Has(config, "executionOffset") THEN config.executionOffset ELSE 0

\* a due check that compares the whole time with the offset
DueAtOffsetOnly(config, t0, t) ==
    ShouldExecuteNow(config, t) /\ t0 = OffsetOf(config)

\* part_003: shouldExecuteByTime && currentSeconds === (config.executionOffset || 0)
DueOffset(config, t0, t) ==
    ShouldExecuteNow(config, t) /\ (t0 % SecondsPerMinute) = OffsetOf(config)

----------------------------------------------------------------------------
(* The sweep: executeAllHangupTasks (multi), executeHangupTasks (single,    *)
(* offset). One step per await. Besides the code's locals (keys, idx, key,  *)
(* config, t0) each invocation records what it did: the keys it loaded,     *)
(* found inactive, called out for, wrote, and the failures it met.          *)

NoConfig == [none |-> TRUE]

NoResponse == [status |-> 0]

\* no analytics request has been received
NoCall == [handler |-> "none", pc |-> "idle", served |-> 0]

\* no path is being normalized
NoPath == [impl |-> "none", input |-> <<>>, outs |-> <<>>]

\* no response is on its way to a client: the answer of a handler is taken
\* by its client before the next step of any handler or sweep
Quiet == resp = NoResponse

IdleSweep ==
    [pc |-> "idle", runs |-> 0, keys |-> <<>>, idx |-> 0, config |-> NoConfig,
     t0 |-> 0,
     visited |-> {}, inactive |-> {}, attempted |-> {}, failedOut |-> {},
     puts |-> {}, loaded |-> <<>>, calls |-> <<>>,
     storeErr |-> FALSE, decodeErr |-> FALSE, aborted |-> FALSE, escaped |-> FALSE]

CurKey(sw) == sw.keys[sw.idx]

\* invocations of the sweep so far
SweepsRun == sweep["cron"].runs + sweep["manual"].runs

\* the for loop goes to its next key, or ends
Advance(sw) ==
    IF sw.idx + 1 > Len(sw.keys)
    THEN [sw EXCEPT !.idx = sw.idx + 1, !.pc = "done", !.config = NoConfig]
    ELSE [sw EXCEPT !.idx = sw.idx + 1, !.pc = "get", !.config = NoConfig]

\* the outer try/catch of the sweep: log, return normally
OuterRethrow(sw) == [sw EXCEPT !.pc = "done", !.escaped = TRUE, !.config = NoConfig]

OuterCatch(sw) == [sw EXCEPT !.pc = "done", !.aborted = TRUE, !.config = NoConfig]

\* part_004 lines 783-785: the try/catch inside the for loop
PerKeyCatch(sw) == Advance(sw)

\* an exception raised in the loop body, outside executeHangupRequest's own
\* try: part_004 has the per-key catch, worker.ts and part_003 only the outer
RaiseInLoop(v, sw) == IF v = "multi" THEN PerKeyCatch(sw) ELSE OuterCatch(sw)

\* the key the sweep writes the record under
PutKey(v, sw) ==
    IF v = "multi"
    THEN ConfigKey(sw.config.userId, sw.config.configId)
    ELSE CurKey(sw)

\* the time stored as lastExecuted: new Date() (multi, single), the
\* currentTime taken when the sweep began (offset)
StampTime(v, sw, t) == IF v = "offset" THEN sw.t0 ELSE t

\* if (!config.isActive) continue
SkipsNothing(config) == FALSE

SkipsInactive(config) == ~IsActive(config)

\* the gate between loading an active config and calling out
IsDue(v, config, t0, t) == IF v = "offset" THEN DueOffset(config, t0, t) ELSE TRUE

\* list() resolved
SweepStart(s) ==
    /\ Quiet
    /\ sweep[s].pc = "idle"
    /\ SweepsRun < MaxSweeps
    /\ s = "manual" => variant = "multi"
    /\ LET keys == ListAll(kv)
           sw == [IdleSweep EXCEPT !.runs = sweep[s].runs + 1, !.keys = keys,
                                   !.t0 = now, !.calls = sweep[s].calls]
       IN  sweep' = [sweep EXCEPT ![s] = Advance(sw)]
    /\ UNCHANGED <<variant, kv, now, apiVars>>

\* list() rejected
SweepListFail(s) ==
    /\ Quiet
    /\ sweep[s].pc = "idle"
    /\ SweepsRun < MaxSweeps
    /\ s = "manual" => variant = "multi"
    /\ LET sw == [IdleSweep EXCEPT !.runs = sweep[s].runs + 1, !.t0 = now,
                                   !.calls = sweep[s].calls, !.storeErr = TRUE]
       IN  sweep' = [sweep EXCEPT ![s] = OuterCatch(sw)]
    /\ UNCHANGED <<variant, kv, now, apiVars>>

\* the loop body from get() to the decision to call out
AfterGet(v, sw, store, t) ==
    LET k == CurKey(sw)
        seen == [sw EXCEPT !.visited = @ \cup {k}]
    IN  IF k \notin DOMAIN store THEN Advance(seen)
        ELSE IF ~IsValidJson(store[k])
             THEN RaiseInLoop(v, [seen EXCEPT !.decodeErr = TRUE])
        ELSE LET config == store[k]
                 got == [seen EXCEPT !.loaded = Assoc(@, k, config),
                                     !.inactive = IF IsActive(config) THEN @
                                                  ELSE @ \cup {k}]
             IN  IF SkipsInactive(config) THEN Advance(got)
                 ELSE IF ~IsDue(v, config, sw.t0, t) THEN Advance(got)
                 ELSE [got EXCEPT !.pc = "fetch", !.config = config]

SweepGet(s) ==
    /\ Quiet
    /\ sweep[s].pc = "get"
    /\ sweep' = [sweep EXCEPT ![s] = AfterGet(variant, sweep[s], kv, now)]
    /\ UNCHANGED <<variant, kv, now, apiVars>>

\* get() rejected
SweepGetFail(s) ==
    /\ Quiet
    /\ sweep[s].pc = "get"
    /\ sweep' = [sweep EXCEPT ![s] =
                    RaiseInLoop(variant, [sweep[s] EXCEPT !.storeErr = TRUE,
                                                          !.visited = @ \cup {CurKey(sweep[s])}])]
    /\ UNCHANGED <<variant, kv, now, apiVars>>

\* the catch block that follows a failed outbound call: the failure is put
\* into the record and the sweep goes on to write it
OnRequestErrorAbort(v, sw, t) == OuterCatch(sw)

OnRequestError(v, sw, t) ==
    [sw EXCEPT !.pc = "putCatch",
               !.config = IF v = "multi" THEN CatchUpdateMulti(sw.config, t)
                          ELSE CatchUpdateToken(sw.config, StampTime(v, sw, t))]

\* the outbound call came back with r (or threw): the record is updated in
\* memory and the sweep goes on to write it
AfterFetch(v, sw, r, t) ==
    LET k == CurKey(sw)
        called == [sw EXCEPT !.attempted = @ \cup {k},
                             !.calls = Assoc(@, k, t),
                             !.failedOut = IF RequestReturns(r) THEN @ ELSE @ \cup {k}]
    IN  IF v = "multi"
        THEN IF r.kind = "throw"
             THEN OnRequestError(v, called, t)
             ELSE [called EXCEPT !.pc = "putTry",
                                 !.config = TryUpdateMulti(sw.config, r, t)]
        ELSE IF RequestReturns(r)
             THEN [called EXCEPT !.pc = "putTry",
                                 !.config = TryUpdateToken(v, sw.config, r,
                                                          StampTime(v, sw, t))]
             ELSE OnRequestError(v, called, t)

SweepFetch(s, r) ==
    /\ Quiet
    /\ sweep[s].pc = "fetch"
    /\ sweep' = [sweep EXCEPT ![s] = AfterFetch(variant, sweep[s], r, now)]
    /\ UNCHANGED <<variant, kv, now, apiVars>>

\* put() resolved, in the try block or in the catch block
SweepPut(s) ==
    /\ Quiet
    /\ sweep[s].pc \in {"putTry", "putCatch"}
    /\ LET sw == sweep[s]
           k == PutKey(variant, sw)
       IN  /\ kv' = Put(kv, k, sw.config)
           /\ sweep' = [sweep EXCEPT ![s] = Advance([sw EXCEPT !.puts = @ \cup {k}])]
    /\ UNCHANGED <<variant, now, apiVars>>

\* put() rejected in the try block: the catch block of the same try runs
AfterTryPutFail(v, sw, t) ==
    [sw EXCEPT !.pc = "putCatch",
               !.storeErr = TRUE,
               !.config = IF v = "multi" THEN CatchUpdateMulti(sw.config, t)
                          ELSE CatchUpdateToken(sw.config, StampTime(v, sw, t))]

\* put() rejected in the catch block: the exception leaves the block
AfterCatchPutFail(v, sw) == RaiseInLoop(v, [sw EXCEPT !.storeErr = TRUE])

SweepPutFail(s) ==
    /\ Quiet
    /\ sweep[s].pc \in {"putTry", "putCatch"}
    /\ sweep' = [sweep EXCEPT ![s] =
                    IF sweep[s].pc = "putTry"
                    THEN AfterTryPutFail(variant, sweep[s], now)
                    ELSE AfterCatchPutFail(variant, sweep[s])]
    /\ UNCHANGED <<variant, kv, now, apiVars>>

\* scheduled() returns; /api/hangup/execute answers 200
ExecuteResponse == [status |-> 200, body |-> [success |-> TRUE]]

SweepReturn(s) ==
    /\ Quiet
    /\ sweep[s].pc = "done"
    /\ sweep' = [sweep EXCEPT ![s] = [IdleSweep EXCEPT !.runs = sweep[s].runs,
                                                        !.calls = sweep[s].calls]]
    /\ resp' = IF s = "manual" THEN ExecuteResponse ELSE resp
    /\ UNCHANGED <<call, norm, variant, kv, now, nextId, tog, auth, nextTok>>

\* the trigger period of the scheduled sweep
CycleSeconds == GuardMinutes * SecondsPerMinute

\* the start of the cycle after the one that holds t
NextCycle(t) == (t \div CycleSeconds + 1) * CycleSeconds

\* the clock: one second on inside the first seconds of a cycle, or on to
\* the start of the next cycle
Tick ==
    /\ Quiet
    /\ \/ /\ now % CycleSeconds < MaxSkew
          /\ now' = now + 1
       \/ /\ NextCycle(now) <= MaxCycles * CycleSeconds
          /\ now' = NextCycle(now)
    /\ UNCHANGED <<variant, kv, sweep, apiVars>>

----------------------------------------------------------------------------
(* Initial states: the store as an earlier run of the same worker left it,  *)
(* or with a value that is not JSON                                         *)

InitOwners == << <<"u">>, <<"u", "v">>, <<"v">> >>

\* generateUserToken(userId): btoa(userId_timestamp_random), the n-th drawn
TokenOf(userId, n) == [user |-> userId, serial |-> n]

\* the auth records of the users that own the first n stored configs
InitAuth(v, n) ==
    IF v = "multi" THEN <<>>
    ELSE [u \in {InitOwners[i] : i \in 1..n} |->
             [userId |-> u, userToken |-> TokenOf(u, 0), createdAt |-> 0]]

\* the record the worker v writes for a new config (before any sweep)
FreshRecord(v, userId, configId, cookie, active) ==
    IF v = "multi"
    THEN [configId |-> configId, userId |-> userId, configName |-> "name",
          stvUID |-> "uid", cookie |-> cookie, isActive |-> active,
          createdAt |-> 0, executionCount |-> 0]
    ELSE IF v = "single"
    THEN [userId |-> userId, stvUID |-> "uid", cookie |-> cookie,
          isActive |-> active, userToken |-> TokenOf(userId, 0), createdAt |-> 0]
    ELSE [configId |-> configId, userId |-> userId, configName |-> "name",
          stvUID |-> "uid", cookie |-> cookie, isActive |-> active,
          userToken |-> TokenOf(userId, 0), executionOffset |-> 0, createdAt |-> 0]

\* a record as a sweep that ran at time 0 with a successful call leaves it
SweptRecord(v, config) ==
    IF v = "multi"
    THEN TryUpdateMulti(config, [kind |-> "resp", status |-> 200, word |-> TRUE,
                                 marker |-> FALSE, length |-> ShortBody], 0)
    ELSE TryUpdateToken(v, config, [kind |-> "resp", status |-> 200, word |-> TRUE,
                                    marker |-> FALSE, length |-> ShortBody], 0)

InitKey(v, i) ==
    IF v = "single" THEN SingleKey(InitOwners[i])
    ELSE ConfigKey(InitOwners[i], ConfigIdOf(i))

StoredKinds == {"corrupt", "active", "inactive"}

\* the stores with n records, each of one of the given kinds
InitStores(v, n, kinds) ==
    LET choices == [1..n -> kinds]
        valueOf(i, c) ==
            IF c = "corrupt" THEN Corrupt
            ELSE IF c = "swept"
            THEN SweptRecord(v, FreshRecord(v, InitOwners[i], ConfigIdOf(i), "ck1", TRUE))
            ELSE FreshRecord(v, InitOwners[i], ConfigIdOf(i), "ck1", c = "active")
    IN  { [k \in {InitKey(v, i) : i \in 1..n} |->
              LET i == CHOOSE j \in 1..n : InitKey(v, j) = k
              IN  valueOf(i, ch[i])] : ch \in choices }

\* no toggle has completed yet
NoToggle == [n |-> 0]

IdleToggle == [pc |-> "idle", last |-> NoToggle]

InitSweep ==
    /\ variant \in Variants
    /\ \E n \in 0..MaxInitKeys :
          /\ kv \in InitStores(variant, n, StoredKinds)
          /\ nextId = n
          /\ auth = InitAuth(variant, n)
    /\ now = 0
    /\ sweep = [s \in SweepIds |-> IdleSweep]
    /\ tog = IdleToggle
    /\ resp = NoResponse
    /\ nextTok = 1
    /\ norm = NoPath
    /\ call = NoCall

\* one scheduled sweep at a time, with store and outbound failures
NextSweep ==
    \/ SweepStart("cron")
    \/ SweepListFail("cron")
    \/ SweepGet("cron")
    \/ SweepGetFail("cron")
    \/ \E r \in Responses : SweepFetch("cron", r)
    \/ SweepPut("cron")
    \/ SweepPutFail("cron")
    \/ SweepReturn("cron")

SpecSweep == InitSweep /\ [][NextSweep]_vars

----------------------------------------------------------------------------
(* The lifecycle API. A response is [status, body, request]; request names  *)
(* the operation and the userId it was sent for.                            *)

\* an absent or empty userId; an absent userToken
Missing == <<>>

MissingToken == [missing |-> TRUE]

Response(status, body, op, userId) ==
    [status |-> status, body |-> body, request |-> [op |-> op, userId |-> userId]]

ErrorBody == [error |-> TRUE]

\* the fields a create request may carry besides the four of the form
ExtraFields ==
    { <<>>,
      [lastExecuted |-> 0, lastResult |-> [kind |-> "forged"]] }

\* JSON bodies of POST /api/hangup/configs (part_004)
CreateBodies ==
    { Merge([userId |-> u, configName |-> "name", stvUID |-> "uid", cookie |-> ck], x) :
        u \in UserIds, ck \in Cookies, x \in ExtraFields }

\* a userId that is the empty string
EmptyUserId == <<"">>

\* ${body.userId} in a template string when the body has no userId
Undefined == <<"undefined">>

\* the userId a request body carries
UserIdOf(body) == IF Has(body, "userId") THEN body.userId ELSE Missing

\* a string of white space, and a cookie typed with spaces around it
Blank == " "

PaddedCookie == " ck2 "

\* s.trim(), on the texts of the model
Trim(s) == IF s = Blank THEN "" ELSE IF s = PaddedCookie THEN "ck2" ELSE s

\* !body[f]: the field is absent or the empty string
IsFalsy(body, f) == ~Has(body, f) \/ body[f] = ""

\* part_004: { ...body, configId, isActive: true, createdAt, executionCount: 0 }
NewConfigBodyLast(body, configId, t) ==
    Merge([configId |-> configId, isActive |-> TRUE, createdAt |-> t,
           executionCount |-> 0], body)

NewConfigMulti(body, configId, t) ==
    Merge(body, [configId |-> configId, isActive |-> TRUE, createdAt |-> t,
                 executionCount |-> 0])

\* POST /api/hangup/configs (part_004)
CreateMulti(body) ==
    /\ Quiet
    /\ variant = "multi"
    /\ nextId < MaxInitKeys + MaxConfigs
    /\ LET configId == ConfigIdOf(nextId + 1)
           keyUser == IF Has(body, "userId") THEN body.userId ELSE Undefined
       IN  /\ kv' = Put(kv, ConfigKey(keyUser, configId),
                        NewConfigMulti(body, configId, now))
           /\ resp' = Response(200, [success |-> TRUE, configId |-> configId],
                               "create", UserIdOf(body))
    /\ nextId' = nextId + 1
    /\ UNCHANGED <<call, norm, variant, now, sweep, tog, auth, nextTok>>

\* config.isActive = !config.isActive
SwitchedOff(config) == Merge(config, [isActive |-> FALSE])

Flipped(config) == Merge(config, [isActive |-> ~IsActive(config)])

\* the toggles completed in a row on one record with no other write to it:
\* how many (1 or 2), the isActive the first one read, the record the last
\* one wrote; none when the record was written between get() and put()
ToggleRecord(t, store) ==
    IF t.key \notin DOMAIN store \/ store[t.key] # t.read THEN NoToggle
    ELSE IF /\ t.last.n = 1
            /\ t.last.key = t.key
            /\ t.last.wrote = t.read
    THEN [n |-> 2, key |-> t.key, orig |-> t.last.orig, wrote |-> t.config]
    ELSE [n |-> 1, key |-> t.key, orig |-> IsActive(t.read), wrote |-> t.config]

\* POST /api/hangup/configs/:id/toggle (part_004), up to the get()
ToggleGet(userId, configId) ==
    /\ Quiet
    /\ variant = "multi"
    /\ tog.pc = "idle"
    /\ LET key == ConfigKey(userId, configId)
       IN  IF key \notin DOMAIN kv
           THEN /\ resp' = Response(404, ErrorBody, "toggle", userId)
                /\ tog' = tog
           ELSE IF ~IsValidJson(kv[key])
           THEN /\ resp' = Response(500, ErrorBody, "toggle", userId)
                /\ tog' = tog
           ELSE /\ tog' = [pc |-> "put", key |-> key, userId |-> userId,
                           config |-> Flipped(kv[key]), read |-> kv[key],
                           last |-> tog.last]
                /\ resp' = resp
    /\ UNCHANGED <<call, norm, variant, kv, now, nextId, sweep, auth, nextTok>>

\* the toggle's put() and its answer
TogglePut ==
    /\ Quiet
    /\ tog.pc = "put"
    /\ kv' = Put(kv, tog.key, tog.config)
    /\ resp' = Response(200, [success |-> TRUE, isActive |-> tog.config.isActive],
                        "toggle", tog.userId)
    /\ tog' = [pc |-> "idle", last |-> ToggleRecord(tog, kv)]
    /\ UNCHANGED <<call, norm, variant, now, nextId, sweep, auth, nextTok>>

\* DELETE /api/hangup/configs/:id (part_004)
DeleteMulti(userId, configId) ==
    /\ Quiet
    /\ variant = "multi"
    /\ kv' = Delete(kv, ConfigKey(userId, configId))
    /\ resp' = Response(200, [success |-> TRUE], "delete", userId)
    /\ UNCHANGED <<call, norm, variant, now, nextId, sweep, tog, auth, nextTok>>

\* the records of the listed keys that parse, in listing order
RECURSIVE Collect(_, _)
Collect(store, keys) ==
    IF keys = <<>> THEN <<>>
    ELSE LET rest == Collect(store, Tail(keys))
         IN  IF Head(keys) \in DOMAIN store /\ IsValidJson(store[Head(keys)])
             THEN <<store[Head(keys)]>> \o rest
             ELSE rest

\* part_004 getUserConfigs: delete (config as any).cookie
RedactNothing(config) == config

Redact(config) == Without(config, {"cookie"})

\* part_004 getUserConfigs(userId, env)
GetUserConfigsMulti(store, userId) ==
    LET found == Collect(store, ListUser(store, userId))
    IN  [i \in 1..Len(found) |-> Redact(found[i])]

\* GET /api/hangup/configs?userId=... (part_004)
ListMulti(userId) ==
    /\ Quiet
    /\ variant = "multi"
    /\ resp' = IF userId = Missing
               THEN Response(400, ErrorBody, "list", userId)
               ELSE Response(200, [configs |-> GetUserConfigsMulti(kv, userId)],
                             "list", userId)
    /\ UNCHANGED <<call, norm, variant, kv, now, nextId, sweep, tog, auth, nextTok>>

(* The token variants (worker.ts, part_003 from line 763) *)

\* what a request carries as userToken: the stored one, another, none
Credentials == {"valid", "wrong", "missing"}

WrongToken == [user |-> <<"x">>, serial |-> 0]

TokenSent(authStore, userId, cred) ==
    IF cred = "missing" THEN MissingToken
    ELSE IF cred = "valid" /\ userId \in DOMAIN authStore
         THEN authStore[userId].userToken
         ELSE WrongToken

\* getUserFromRequest: null unless userId and userToken are both there
HasAuthData(userId, token) ==
    userId \notin {Missing, EmptyUserId} /\ token # MissingToken

\* verifyUserAuth(userId, userToken, env)
VerifyAnyToken(authStore, userId, token) ==
    userId # Missing /\ token # MissingToken

VerifyUserAuth(authStore, userId, token) ==
    /\ userId # Missing
    /\ token # MissingToken
    /\ userId \in DOMAIN authStore
    /\ authStore[userId].userToken = token

\* POST /api/hangup/login: createOrGetUserAuth
Login(userId) ==
    /\ Quiet
    /\ variant \in {"single", "offset"}
    /\ IF userId \in DOMAIN auth
       THEN /\ resp' = Response(200, [success |-> TRUE,
                                      userToken |-> auth[userId].userToken],
                                "login", userId)
            /\ UNCHANGED <<auth, nextTok>>
       ELSE /\ nextTok <= MaxTokens
            /\ auth' = Assoc(auth, userId,
                             [userId |-> userId, userToken |-> TokenOf(userId, nextTok),
                              createdAt |-> now])
            /\ nextTok' = nextTok + 1
            /\ resp' = Response(200, [success |-> TRUE,
                                      userToken |-> TokenOf(userId, nextTok)],
                                "login", userId)
    /\ UNCHANGED <<call, norm, variant, kv, now, nextId, sweep, tog>>

\* generateExecutionOffset(): Math.floor(Math.random() * 60), sampled
SampleOffsets == {0, MaxSkew}

\* part_003 saveUserConfig: the record stored
NewConfigOffset(userId, token, cookie, configId, offset, t) ==
    [configId |-> configId, userId |-> userId, configName |-> "name",
     stvUID |-> "uid", cookie |-> cookie, isActive |-> TRUE, userToken |-> token,
     executionOffset |-> offset, createdAt |-> t]

\* part_003 saveUserConfig: the record stored for a request body
NewConfigOffsetOf(body, userId, token, configId, offset, t) ==
    [NewConfigOffset(userId, token, Trim(body.cookie), configId, offset, t)
        EXCEPT !.configName = Trim(body.configName), !.stvUID = Trim(body.stvUID)]

\* the JSON body the page sends for userId and cookie
FormBody(userId, cookie) ==
    IF userId = Missing
    THEN [configName |-> "name", stvUID |-> "uid", cookie |-> cookie]
    ELSE [userId |-> userId, configName |-> "name", stvUID |-> "uid", cookie |-> cookie]

\* POST /api/hangup/configs (part_003) with a JSON body
SaveConfigOffset(body, cred, offset) ==
    /\ Quiet
    /\ variant = "offset"
    /\ nextId < MaxInitKeys + MaxConfigs
    /\ LET userId == UserIdOf(body)
           token == TokenSent(auth, userId, cred)
           configId == ConfigIdOf(nextId + 1)
       IN  IF ~HasAuthData(userId, token)
           THEN /\ resp' = Response(401, ErrorBody, "create", userId)
                /\ UNCHANGED <<kv, nextId>>
           ELSE IF ~VerifyUserAuth(auth, userId, token)
           THEN /\ resp' = Response(403, ErrorBody, "create", userId)
                /\ UNCHANGED <<kv, nextId>>
           ELSE IF \E f \in {"configName", "stvUID", "cookie"} : IsFalsy(body, f)
           THEN /\ resp' = Response(400, ErrorBody, "create", userId)
                /\ UNCHANGED <<kv, nextId>>
           ELSE /\ kv' = Put(kv, ConfigKey(userId, configId),
                             NewConfigOffsetOf(body, userId, token, configId, offset, now))
                /\ nextId' = nextId + 1
                /\ resp' = Response(200, [success |-> TRUE, configId |-> configId],
                                    "create", userId)
    /\ UNCHANGED <<call, norm, variant, now, sweep, tog, auth, nextTok>>

\* POST /api/hangup/configs (part_003) as the page sends it
SaveOffset(userId, cred, cookie, offset) ==
    SaveConfigOffset(FormBody(userId, cookie), cred, offset)

\* part_003 getUserConfigs: the fields pushed for one config
ListedFields(config) ==
    Merge([f \in DOMAIN config \cap
                 {"configId", "configName", "stvUID", "isActive", "lastExecuted",
                  "lastResult", "executionOffset", "createdAt"} |-> config[f]],
          [cookieExists |-> Has(config, "cookie")])

\* GET /api/hangup/configs?userId=...&userToken=... (part_003)
ListOffset(userId, cred) ==
    /\ Quiet
    /\ variant = "offset"
    /\ LET token == TokenSent(auth, userId, cred)
           keys == ListUser(kv, userId)
           found == Collect(kv, keys)
       IN  resp' =
             IF ~HasAuthData(userId, token)
             THEN Response(401, ErrorBody, "list", userId)
             ELSE IF ~VerifyUserAuth(auth, userId, token)
             THEN Response(403, ErrorBody, "list", userId)
             ELSE IF \E i \in 1..Len(keys) : ~IsValidJson(kv[keys[i]])
             THEN Response(500, ErrorBody, "list", userId)
             ELSE Response(200, [configs |-> [i \in 1..Len(found) |-> ListedFields(found[i])]],
                           "list", userId)
    /\ UNCHANGED <<call, norm, variant, kv, now, nextId, sweep, tog, auth, nextTok>>

\* worker.ts getUserConfig: the fields answered
AnsweredFields(config) ==
    Merge([f \in DOMAIN config \cap
                 {"userId", "stvUID", "isActive", "lastExecuted", "lastResult",
                  "createdAt"} |-> config[f]],
          [cookieExists |-> Has(config, "cookie")])

\* GET /api/hangup/config?userId=...&userToken=... (worker.ts)
GetConfigSingle(userId, cred) ==
    /\ Quiet
    /\ variant = "single"
    /\ LET token == TokenSent(auth, userId, cred)
           key == SingleKey(userId)
       IN  resp' =
             IF ~HasAuthData(userId, token)
             THEN Response(401, ErrorBody, "list", userId)
             ELSE IF ~VerifyUserAuth(auth, userId, token)
             THEN Response(403, ErrorBody, "list", userId)
             ELSE IF key \notin DOMAIN kv
             THEN Response(404, ErrorBody, "list", userId)
             ELSE IF ~IsValidJson(kv[key])
             THEN Response(500, ErrorBody, "list", userId)
             ELSE Response(200, AnsweredFields(kv[key]), "get", userId)
    /\ UNCHANGED <<call, norm, variant, kv, now, nextId, sweep, tog, auth, nextTok>>

(* The writing handlers of the token variants *)

\* getUserFromRequest reads request.json() unless the method is GET: the
\* body of the request is used afterwards
BodyUsedAfterAuth(method) == method # "GET"

\* request.clone() throws a TypeError when the body is already used
CloneThrows(bodyUsed) == bodyUsed

\* the checks a token handler begins with: 0 to go on, else the status
\* answered; clones tells whether the handler calls request.clone() after
\* getUserFromRequest(request)
Gate(authStore, userId, token, method, clones) ==
    IF ~HasAuthData(userId, token) THEN 401
    ELSE IF ~VerifyUserAuth(authStore, userId, token) THEN 403
    ELSE IF clones /\ CloneThrows(BodyUsedAfterAuth(method)) THEN 500
    ELSE 0

\* worker.ts saveUserConfig: the record stored
NewConfigSingle(userId, token, stvUID, cookie, t) ==
    [userId |-> userId, stvUID |-> stvUID, cookie |-> cookie, isActive |-> TRUE,
     userToken |-> token, createdAt |-> t]

\* POST /api/hangup/config (worker.ts) with a JSON body
SaveConfigSingle(body, cred) ==
    /\ Quiet
    /\ variant = "single"
    /\ LET userId == UserIdOf(body)
           token == TokenSent(auth, userId, cred)
           gate == Gate(auth, userId, token, "POST", TRUE)
       IN  IF gate # 0
           THEN /\ resp' = Response(gate, ErrorBody, "create", userId)
                /\ kv' = kv
           ELSE IF IsFalsy(body, "stvUID") \/ IsFalsy(body, "cookie")
           THEN /\ resp' = Response(400, ErrorBody, "create", userId)
                /\ kv' = kv
           ELSE /\ kv' = Put(kv, SingleKey(userId),
                             NewConfigSingle(userId, token, Trim(body.stvUID),
                                             Trim(body.cookie), now))
                /\ resp' = Response(200, [success |-> TRUE], "create", userId)
    /\ UNCHANGED <<call, norm, variant, now, nextId, sweep, tog, auth, nextTok>>

\* POST /api/hangup/config (worker.ts) as the page sends it
SaveSingle(userId, cred, cookie) == SaveConfigSingle(FormBody(userId, cookie), cred)

\* config.isActive = isActive
SetActive(config, isActive) == Merge(config, [isActive |-> isActive])

\* what toggle answers and stores once the gate is passed
ToggleStored(store, key, isActive, userId) ==
    IF key \notin DOMAIN store
    THEN [resp |-> Response(404, ErrorBody, "toggle", userId), kv |-> store]
    ELSE IF ~IsValidJson(store[key])
    THEN [resp |-> Response(500, ErrorBody, "toggle", userId), kv |-> store]
    ELSE [resp |-> Response(200, [success |-> TRUE], "toggle", userId),
          kv |-> Put(store, key, SetActive(store[key], isActive))]

\* POST /api/hangup/toggle (worker.ts)
ToggleSingle(userId, cred, isActive) ==
    /\ Quiet
    /\ variant = "single"
    /\ LET token == TokenSent(auth, userId, cred)
           gate == Gate(auth, userId, token, "POST", TRUE)
           out == ToggleStored(kv, SingleKey(userId), isActive, userId)
       IN  IF gate # 0
           THEN /\ resp' = Response(gate, ErrorBody, "toggle", userId)
                /\ kv' = kv
           ELSE /\ resp' = out.resp
                /\ kv' = out.kv
    /\ UNCHANGED <<call, norm, variant, now, nextId, sweep, tog, auth, nextTok>>

\* POST /api/hangup/config/toggle (part_003)
ToggleOffset(userId, cred, configId, isActive) ==
    /\ Quiet
    /\ variant = "offset"
    /\ LET token == TokenSent(auth, userId, cred)
           gate == Gate(auth, userId, token, "POST", TRUE)
           out == ToggleStored(kv, ConfigKey(userId, configId), isActive, userId)
       IN  IF gate # 0
           THEN /\ resp' = Response(gate, ErrorBody, "toggle", userId)
                /\ kv' = kv
           ELSE /\ resp' = out.resp
                /\ kv' = out.kv
    /\ UNCHANGED <<call, norm, variant, now, nextId, sweep, tog, auth, nextTok>>

\* deleteUserConfig that leaves the auth record where it is
DeleteKeepsAuth(userId, token) ==
    /\ Quiet
    /\ variant = "single"
    /\ LET gate == Gate(auth, userId, token, "DELETE", FALSE)
       IN  IF gate # 0
           THEN /\ resp' = Response(gate, ErrorBody, "delete", userId)
                /\ UNCHANGED <<kv, auth>>
           ELSE /\ kv' = Delete(kv, SingleKey(userId))
                /\ auth' = auth
                /\ resp' = Response(200, [success |-> TRUE], "delete", userId)
    /\ UNCHANGED <<norm, variant, now, nextId, sweep, tog, nextTok>>

\* worker.ts deleteUserConfig for a request that carries userId and token:
\* the config and the auth record go
DeleteUserConfig(userId, token) ==
    /\ Quiet
    /\ variant = "single"
    /\ LET gate == Gate(auth, userId, token, "DELETE", FALSE)
       IN  IF gate # 0
           THEN /\ resp' = Response(gate, ErrorBody, "delete", userId)
                /\ UNCHANGED <<kv, auth>>
           ELSE /\ kv' = Delete(kv, SingleKey(userId))
                /\ auth' = Delete(auth, userId)
                /\ resp' = Response(200, [success |-> TRUE], "delete", userId)
    /\ UNCHANGED <<norm, variant, now, nextId, sweep, tog, nextTok>>

\* DELETE /api/hangup/delete (worker.ts)
DeleteSingle(userId, cred) ==
    /\ DeleteUserConfig(userId, TokenSent(auth, userId, cred))
    /\ call' = call

\* DELETE /api/hangup/config/delete (part_003)
DeleteOffset(userId, cred, configId) ==
    /\ Quiet
    /\ variant = "offset"
    /\ LET token == TokenSent(auth, userId, cred)
           gate == Gate(auth, userId, token, "DELETE", TRUE)
           key == ConfigKey(userId, configId)
       IN  IF gate # 0
           THEN /\ resp' = Response(gate, ErrorBody, "delete", userId)
                /\ kv' = kv
           ELSE IF key \notin DOMAIN kv
           THEN /\ resp' = Response(404, ErrorBody, "delete", userId)
                /\ kv' = kv
           ELSE IF ~IsValidJson(kv[key])
           THEN /\ resp' = Response(500, ErrorBody, "delete", userId)
                /\ kv' = kv
           ELSE /\ kv' = Delete(kv, key)
                /\ resp' = Response(200, [success |-> TRUE], "delete", userId)
    /\ UNCHANGED <<call, norm, variant, now, nextId, sweep, tog, auth, nextTok>>

\* what test answers once the gate is passed; failStatus is the status of
\* the answer to a failed outbound call (200 in worker.ts, 500 in part_003)
TestAnswer(store, key, r, userId, failStatus) ==
    IF key \notin DOMAIN store
    THEN Response(404, ErrorBody, "test", userId)
    ELSE IF ~IsValidJson(store[key])
    THEN Response(500, IF failStatus = 200 THEN ErrorBody
                       ELSE [success |-> FALSE, error |-> TRUE], "test", userId)
    ELSE IF RequestReturns(r)
    THEN Response(200, [success |-> TRUE, result |-> TRUE], "test", userId)
    ELSE Response(failStatus, [success |-> FALSE, error |-> TRUE], "test", userId)

\* POST /api/hangup/test (worker.ts)
TestSingle(userId, cred, r) ==
    /\ Quiet
    /\ variant = "single"
    /\ LET token == TokenSent(auth, userId, cred)
           gate == Gate(auth, userId, token, "POST", FALSE)
       IN  resp' = IF gate # 0
                   THEN Response(gate, ErrorBody, "test", userId)
                   ELSE TestAnswer(kv, SingleKey(userId), r, userId, 200)
    /\ UNCHANGED <<call, norm, variant, kv, now, nextId, sweep, tog, auth, nextTok>>

\* POST /api/hangup/config/test (part_003)
TestOffset(userId, cred, configId, r) ==
    /\ Quiet
    /\ variant = "offset"
    /\ LET token == TokenSent(auth, userId, cred)
           gate == Gate(auth, userId, token, "POST", TRUE)
       IN  resp' = IF gate # 0
                   THEN Response(gate,
                                 IF gate = 500 THEN [success |-> FALSE, error |-> TRUE]
                                 ELSE ErrorBody, "test", userId)
                   ELSE TestAnswer(kv, ConfigKey(userId, configId), r, userId, 500)
    /\ UNCHANGED <<call, norm, variant, kv, now, nextId, sweep, tog, auth, nextTok>>

\* the body of new Response('API endpoint not found'): a string, no JSON
PlainText == [plain |-> "API endpoint not found"]

\* no route matched the path and the method: part_004 falls through its ifs,
\* worker.ts and part_003 leave their switch
UnknownEndpoint ==
    /\ Quiet
    /\ resp' = IF variant = "multi"
               THEN Response(404, ErrorBody, "unknown", Missing)
               ELSE Response(404, PlainText, "unknown", Missing)
    /\ UNCHANGED <<call, norm, variant, kv, now, nextId, sweep, tog, auth, nextTok>>

----------------------------------------------------------------------------
(* part_004 with a scheduled and a manual sweep, create, toggle and delete  *)
(* running together on one record; store calls succeed                      *)

\* the store is empty after the configs created earlier were deleted; one
\* config is still to be created, and every operation works on its record
InitRace ==
    /\ variant = "multi"
    /\ kv = <<>>
    /\ nextId = MaxInitKeys + MaxConfigs - 1
    /\ auth = <<>>
    /\ now = 0
    /\ sweep = [s \in SweepIds |-> IdleSweep]
    /\ tog = IdleToggle
    /\ resp = NoResponse
    /\ nextTok = 1
    /\ norm = NoPath
    /\ call = NoCall

RaceResponses == {r \in Responses : r.kind = "throw" \/ (r.status = 200 /\ ~r.marker)}

RaceBodies == {b \in CreateBodies : b.userId = <<"u">> /\ b.cookie = "ck2"}

\* the configIds a client can know of
KnownIds == {ConfigIdOf(i) : i \in 1..nextId}

\* the client takes the response
Deliver ==
    /\ resp # NoResponse
    /\ resp' = NoResponse
    /\ UNCHANGED <<call, norm, variant, kv, now, nextId, sweep, tog, auth, nextTok>>

RaceSteps ==
    \/ \E s \in SweepIds : SweepStart(s)
    \/ \E s \in SweepIds : SweepGet(s)
    \/ \E s \in SweepIds : \E r \in RaceResponses : SweepFetch(s, r)
    \/ \E s \in SweepIds : SweepPut(s)
    \/ \E s \in SweepIds : SweepReturn(s)
    \/ \E body \in RaceBodies : CreateMulti(body)
    \/ \E u \in UserIds : \E c \in KnownIds : ToggleGet(u, c)
    \/ TogglePut
    \/ \E u \in UserIds : \E c \in KnownIds : DeleteMulti(u, c)

NextRace == Deliver \/ RaceSteps

SpecRace == InitRace /\ [][NextRace]_vars

(* the API of the three workers over a store that sweeps have written *)

ApiBodies == {b \in CreateBodies : b.cookie = "ck2"}

\* the store holds MaxInitKeys records of different owners
InitApi ==
    /\ variant \in Variants
    /\ kv \in InitStores(variant, MaxInitKeys, {"active", "swept", "corrupt"})
    /\ nextId = MaxInitKeys
    /\ auth = InitAuth(variant, MaxInitKeys)
    /\ now = 0
    /\ sweep = [s \in SweepIds |-> IdleSweep]
    /\ tog = IdleToggle
    /\ resp = NoResponse
    /\ nextTok = 1
    /\ norm = NoPath
    /\ call = NoCall

ApiSteps ==
    \/ \E body \in ApiBodies : CreateMulti(body)
    \/ \E u \in UserIds : \E c \in KnownIds : ToggleGet(u, c)
    \/ TogglePut
    \/ \E u \in UserIds \cup {Missing} : ListMulti(u)
    \/ \E u \in UserIds : Login(u)
    \/ \E u \in UserIds : \E cred \in Credentials : \E ck \in Cookies :
          \E o \in SampleOffsets : ck = "ck2" /\ SaveOffset(u, cred, ck, o)
    \/ \E u \in UserIds \cup {Missing} : \E cred \in Credentials : ListOffset(u, cred)
    \/ \E u \in UserIds \cup {Missing} : \E cred \in Credentials : GetConfigSingle(u, cred)
    \/ UnknownEndpoint

NextApi == Deliver \/ ApiSteps

SpecApi == InitApi /\ [][NextApi]_vars

(* the handlers of the token variants (worker.ts, part_003) *)

\* who a request can say it is
Callers == UserIds \cup {Missing}

TokenResponses == RaceResponses

InitToken ==
    /\ variant \in {"single", "offset"}
    /\ kv \in InitStores(variant, MaxInitKeys, {"active", "corrupt"})
    /\ nextId = MaxInitKeys
    /\ auth = InitAuth(variant, MaxInitKeys)
    /\ now = 0
    /\ sweep = [s \in SweepIds |-> IdleSweep]
    /\ tog = IdleToggle
    /\ resp = NoResponse
    /\ nextTok = 1
    /\ norm = NoPath
    /\ call = NoCall

TokenSteps ==
    \/ \E u \in UserIds : Login(u)
    \/ \E u \in Callers : \E cred \in Credentials : SaveSingle(u, cred, "ck2")
    \/ \E u \in Callers : \E cred \in Credentials : SaveOffset(u, cred, "ck2", 0)
    \/ \E u \in Callers : \E cred \in Credentials : ListOffset(u, cred)
    \/ \E u \in Callers : \E cred \in Credentials : GetConfigSingle(u, cred)
    \/ \E u \in Callers : \E cred \in Credentials : \E a \in BOOLEAN :
          ToggleSingle(u, cred, a)
    \/ \E u \in Callers : \E cred \in Credentials : \E c \in KnownIds :
          \E a \in BOOLEAN : ToggleOffset(u, cred, c, a)
    \/ \E u \in Callers : \E cred \in Credentials : DeleteSingle(u, cred)
    \/ \E u \in Callers : \E cred \in Credentials : \E c \in KnownIds :
          DeleteOffset(u, cred, c)
    \/ \E u \in Callers : \E cred \in Credentials : \E r \in TokenResponses :
          TestSingle(u, cred, r)
    \/ \E u \in Callers : \E cred \in Credentials : \E c \in KnownIds :
          \E r \in TokenResponses : TestOffset(u, cred, c, r)
    \/ UnknownEndpoint

NextToken == Deliver \/ TokenSteps

SpecToken == InitToken /\ [][NextToken]_vars

(* create with the bodies a client can send (all three workers) *)

\* the create form filled in well
GoodFields == [userId |-> <<"u">>, configName |-> "name", stvUID |-> "uid", cookie |-> "ck2"]

FormFields == {"configName", "stvUID", "cookie"}

\* the form well filled, or with one field absent, empty or blank, or with
\* the cookie typed with spaces around it
FormBodies ==
    {GoodFields, [GoodFields EXCEPT !.cookie = PaddedCookie],
     [GoodFields EXCEPT !.userId = EmptyUserId]}
    \cup {Without(GoodFields, {f}) : f \in FormFields \cup {"userId"}}
    \cup {[GoodFields EXCEPT ![f] = d] : f \in FormFields, d \in {"", Blank}}

\* values a request may carry for the fields the server sets, and more
ForgedFields ==
    [configId |-> "c6", isActive |-> FALSE, executionCount |-> 7, createdAt |-> 9,
     lastExecuted |-> 0]

CreateRequests == {Merge(b, x) : b \in FormBodies, x \in {<<>>, ForgedFields}}

InitCreate ==
    /\ variant \in Variants
    /\ kv \in InitStores(variant, MaxInitKeys, {"active", "swept"})
    /\ nextId = MaxInitKeys
    /\ auth = InitAuth(variant, MaxInitKeys)
    /\ now = 0
    /\ sweep = [s \in SweepIds |-> IdleSweep]
    /\ tog = IdleToggle
    /\ resp = NoResponse
    /\ nextTok = 1
    /\ norm = NoPath
    /\ call = NoCall

CreateSteps ==
    \/ \E body \in CreateRequests : CreateMulti(body)
    \/ \E body \in CreateRequests : \E cred \in Credentials : \E o \in SampleOffsets :
          SaveConfigOffset(body, cred, o)
    \/ \E body \in CreateRequests : \E cred \in Credentials :
          SaveConfigSingle(body, cred)

NextCreate == Deliver \/ CreateSteps

SpecCreate == InitCreate /\ [][NextCreate]_vars

----------------------------------------------------------------------------
(* The scheduled sweep of part_003 under a running clock; store and        *)
(* outbound calls succeed or fail as the remote site decides                *)

\* five-minute cycle that holds the instant t
Cycle(t) == t \div CycleSeconds

\* saveUserConfig's record with the offset generateExecutionOffset() drew
OffsetRecord(i, offset) ==
    [FreshRecord("offset", InitOwners[i], ConfigIdOf(i), "ck1", TRUE)
        EXCEPT !.executionOffset = offset]

\* the stores with n active, never executed configs
OffsetStores(n) ==
    { [k \in {InitKey("offset", i) : i \in 1..n} |->
          LET i == CHOOSE j \in 1..n : InitKey("offset", j) = k
          IN  OffsetRecord(i, off[i])] : off \in [1..n -> SampleOffsets] }

InitClock ==
    /\ variant = "offset"
    /\ \E n \in 1..MaxInitKeys :
          /\ kv \in OffsetStores(n)
          /\ nextId = n
          /\ auth = InitAuth(variant, n)
    /\ now = 0
    /\ sweep = [s \in SweepIds |-> IdleSweep]
    /\ tog = IdleToggle
    /\ resp = NoResponse
    /\ nextTok = 1
    /\ norm = NoPath
    /\ call = NoCall

\* scheduled(): the periodic trigger fires once in every cycle, within the
\* first seconds of the cycle
Trigger ==
    /\ now % CycleSeconds <= MaxSkew
    /\ SweepsRun = Cycle(now)
    /\ SweepStart("cron")

\* the clock does not leave the first seconds of a cycle before the trigger
\* of that cycle has fired
CycleTick ==
    /\ Tick
    /\ SweepsRun = Cycle(now) => now' % CycleSeconds <= MaxSkew

ClockResponses == {r \in Responses : r.kind = "throw" \/ (Ok(r) /\ ~r.marker)}

NextClock ==
    \/ Trigger
    \/ SweepGet("cron")
    \/ \E r \in ClockResponses : SweepFetch("cron", r)
    \/ SweepPut("cron")
    \/ SweepReturn("cron")
    \/ CycleTick

SpecClock == InitClock /\ [][NextClock]_vars

\* the same sweep invoked at any instant, as often as the bound allows
NextGuard ==
    \/ SweepStart("cron")
    \/ SweepGet("cron")
    \/ \E r \in ClockResponses : SweepFetch("cron", r)
    \/ SweepPut("cron")
    \/ SweepReturn("cron")
    \/ Tick

SpecGuard == InitClock /\ [][NextGuard]_vars


----------------------------------------------------------------------------
(* Path normalization of the analytics handlers: src/functions/api/rank.js  *)
(* ("rank") and src/unnamed/part_002 ("stats", which also re-encodes the    *)
(* path). A string is the sequence of its character codes.                  *)

MaxPathLen == 4       \* characters of a path handed to normalizePath
MaxApplies == 2       \* times normalizePath is applied to its own result

PathImpls == {"rank", "stats"}

\* sample characters: ' ' % . / 2 5 F g and e-acute
PathChars == {32, 37, 46, 47, 50, 53, 70, 103, 233}

PathInputs == UNION { [1..n -> PathChars] : n \in 0..MaxPathLen }

Percent == 37
Dot == 46
Slash == 47

\* String.prototype.trim: white space and line terminators
IsSpace(c) == c \in {9, 10, 11, 12, 13, 32, 160}

RECURSIVE TrimStart(_)
TrimStart(s) ==
    IF s # <<>> /\ IsSpace(Head(s)) THEN TrimStart(Tail(s)) ELSE s

RECURSIVE TrimEnd(_)
TrimEnd(s) ==
    IF s # <<>> /\ IsSpace(s[Len(s)]) THEN TrimEnd(SubSeq(s, 1, Len(s) - 1)) ELSE s

\* (input || "").trim()
TrimPath(s) == TrimEnd(TrimStart(s))

\* path.startsWith("/")
StartsWithSlash(s) == s # <<>> /\ Head(s) = Slash

\* path.endsWith("/")
EndsWithSlash(s) == s # <<>> /\ s[Len(s)] = Slash

\* path.replace(/\/{2,}/g, "/")
RECURSIVE CollapseSlashes(_)
CollapseSlashes(s) ==
    IF Len(s) < 2 THEN s
    ELSE IF s[1] = Slash /\ s[2] = Slash THEN CollapseSlashes(Tail(s))
    ELSE <<s[1]>> \o CollapseSlashes(Tail(s))

\* [a-zA-Z0-9]
IsAlnum(c) == c \in (48..57) \cup (65..90) \cup (97..122)

\* /\.[a-zA-Z0-9]{2,}$/.test(path)
HasLongExt(s) ==
    \E i \in 1..Len(s) :
        /\ s[i] = Dot
        /\ i + 1 < Len(s)
        /\ \A j \in (i + 1)..Len(s) : IsAlnum(s[j])

\* /\.[a-zA-Z0-9]+$/.test(path)
HasExt(s) ==
    \E i \in 1..Len(s) :
        /\ s[i] = Dot
        /\ i < Len(s)
        /\ \A j \in (i + 1)..Len(s) : IsAlnum(s[j])

\* path !== "/" && !hasExt && !path.endsWith("/"), without the last test
NeedsSlashAlways(s) == s # <<Slash>> /\ ~HasExt(s)

\* path !== "/" && !hasExt && !path.endsWith("/")
NeedsSlash(s) == s # <<Slash>> /\ ~HasExt(s) /\ ~EndsWithSlash(s)

\* the characters encodeURI leaves as they are: letters, digits,
\* ; / ? : @ & = + $ , # and - _ . ! ~ * ' ( )
UriReserved == {59, 47, 63, 58, 64, 38, 61, 43, 36, 44, 35}

UriUnescaped == {45, 95, 46, 33, 126, 42, 39, 40, 41}

\* the code of the upper-case hexadecimal digit of value n
HexDigit(n) == IF n < 10 THEN 48 + n ELSE 55 + n

\* the value of the hexadecimal digit with code c, or -1
HexValue(c) ==
    IF c \in 48..57 THEN c - 48
    ELSE IF c \in 65..70 THEN c - 55
    ELSE IF c \in 97..102 THEN c - 87
    ELSE -1

\* "%XX" for one octet
Escape(octet) == <<Percent, HexDigit(octet \div 16), HexDigit(octet % 16)>>

\* the UTF-8 octets of a code point (surrogates do not occur in the samples)
Utf8(cp) ==
    IF cp < 128 THEN <<cp>>
    ELSE IF cp < 2048 THEN <<192 + (cp \div 64), 128 + (cp % 64)>>
    ELSE IF cp < 65536
    THEN <<224 + (cp \div 4096), 128 + ((cp \div 64) % 64), 128 + (cp % 64)>>
    ELSE <<240 + (cp \div 262144), 128 + ((cp \div 4096) % 64),
           128 + ((cp \div 64) % 64), 128 + (cp % 64)>>

RECURSIVE EscapeAll(_)
EscapeAll(octets) ==
    IF octets = <<>> THEN <<>> ELSE Escape(Head(octets)) \o EscapeAll(Tail(octets))

\* encodeURI(s)
RECURSIVE encodeURI(_)
encodeURI(s) ==
    IF s = <<>> THEN <<>>
    ELSE LET c == Head(s)
         IN  (IF IsAlnum(c) \/ c \in UriReserved \/ c \in UriUnescaped
              THEN <<c>> ELSE EscapeAll(Utf8(c))) \o encodeURI(Tail(s))

\* the octet that the escape at position i of s stands for, or -1 when no
\* well-formed "%XX" is there
OctetAt(s, i) ==
    IF i + 2 <= Len(s) /\ s[i] = Percent
       /\ HexValue(s[i + 1]) >= 0 /\ HexValue(s[i + 2]) >= 0
    THEN 16 * HexValue(s[i + 1]) + HexValue(s[i + 2])
    ELSE -1

\* number of continuation octets after the leading octet b, or -1
Continuations(b) ==
    IF b \in 194..223 THEN 1
    ELSE IF b \in 224..239 THEN 2
    ELSE IF b \in 240..244 THEN 3
    ELSE -1

\* the n continuation octets after the escape at i are there and well formed
Continued(s, i, n) == \A k \in 1..n : OctetAt(s, i + 3 * k) \in 128..191

\* the code point of the leading octet b and the n continuation octets
RECURSIVE Accumulate(_, _, _, _)
Accumulate(s, i, n, acc) ==
    IF n = 0 THEN acc
    ELSE Accumulate(s, i + 3, n - 1, acc * 64 + (OctetAt(s, i + 3) - 128))

CodePoint(s, i, b, n) ==
    Accumulate(s, i, n, IF n = 1 THEN b - 192 ELSE IF n = 2 THEN b - 224 ELSE b - 240)

\* the smallest code point that needs n continuation octets
MinCodePoint(n) == IF n = 1 THEN 128 ELSE IF n = 2 THEN 2048 ELSE 65536

\* decodeURI throws URIError
Malformed == [ok |-> FALSE, s |-> <<>>]

\* decodeURI(s) from position i on: escapes of reserved characters stay
RECURSIVE DecodeFrom(_, _)
DecodeFrom(s, i) ==
    IF i > Len(s) THEN [ok |-> TRUE, s |-> <<>>]
    ELSE IF s[i] # Percent
    THEN LET rest == DecodeFrom(s, i + 1)
         IN  IF rest.ok THEN [ok |-> TRUE, s |-> <<s[i]>> \o rest.s] ELSE Malformed
    ELSE LET b == OctetAt(s, i)
         IN  IF b < 0 THEN Malformed
             ELSE IF b < 128
             THEN LET rest == DecodeFrom(s, i + 3)
                      piece == IF b \in UriReserved THEN SubSeq(s, i, i + 2) ELSE <<b>>
                  IN  IF rest.ok THEN [ok |-> TRUE, s |-> piece \o rest.s]
                      ELSE Malformed
             ELSE LET n == Continuations(b)
                  IN  IF n < 0 \/ ~Continued(s, i, n) THEN Malformed
                      ELSE LET cp == CodePoint(s, i, b, n)
                               rest == DecodeFrom(s, i + 3 * (n + 1))
                           IN  IF cp < MinCodePoint(n) \/ cp \in 55296..57343
                                  \/ cp > 1114111 \/ ~rest.ok
                               THEN Malformed
                               ELSE [ok |-> TRUE, s |-> <<cp>> \o rest.s]

decodeURI(s) == DecodeFrom(s, 1)

\* part_002: try { encodeURI(decodeURI(path)) } catch { encodeURI(path) }
Reencode(s) ==
    LET decoded == decodeURI(s)
    IN  IF decoded.ok THEN encodeURI(decoded.s) ELSE encodeURI(s)

normalizePath(impl, input) ==
    LET trimmed == TrimPath(input)
    IN  IF trimmed = <<>> THEN <<Slash>>
        ELSE LET encoded == IF impl = "stats" THEN Reencode(trimmed) ELSE trimmed
                 rooted == IF StartsWithSlash(encoded) THEN encoded
                           ELSE <<Slash>> \o encoded
                 single == CollapseSlashes(rooted)
             IN  IF NeedsSlash(single) THEN Append(single, Slash) ELSE single

\* the string handed to the next application
CurrentPath == IF norm.outs = <<>> THEN norm.input ELSE norm.outs[Len(norm.outs)]

InitPath ==
    /\ variant = "multi"
    /\ kv = <<>>
    /\ nextId = 0
    /\ auth = <<>>
    /\ now = 0
    /\ sweep = [s \in SweepIds |-> IdleSweep]
    /\ tog = IdleToggle
    /\ resp = NoResponse
    /\ nextTok = 1
    /\ norm \in { [impl |-> f, input |-> p, outs |-> <<>>] :
                     f \in PathImpls, p \in PathInputs }
    /\ call = NoCall

\* normalizePath applied to the input, then to its own result
Normalize ==
    /\ Len(norm.outs) < MaxApplies
    /\ norm' = [norm EXCEPT !.outs = Append(@, normalizePath(norm.impl, CurrentPath))]
    /\ UNCHANGED <<call, variant, kv, now, nextId, sweep, tog, resp, auth, nextTok>>

NextPath == Normalize

SpecPath == InitPath /\ [][NextPath]_vars

----------------------------------------------------------------------------
(* The life of a config of part_003: created with a drawn offset, toggled,  *)
(* swept, deleted                                                           *)

\* values of generateExecutionOffset, Math.floor(Math.random() * 60): the
\* least, the next ones and the greatest
DrawnOffsets == (0..MaxSkew) \cup {SecondsPerMinute - 1}

InitOffset ==
    /\ variant = "offset"
    /\ kv = <<>>
    /\ nextId = 0
    /\ auth = InitAuth(variant, 1)
    /\ now = 0
    /\ sweep = [s \in SweepIds |-> IdleSweep]
    /\ tog = IdleToggle
    /\ resp = NoResponse
    /\ nextTok = 1
    /\ norm = NoPath
    /\ call = NoCall

NextOffset ==
    \/ \E o \in DrawnOffsets :
          nextId < MaxConfigs /\ SaveOffset(InitOwners[1], "valid", "ck1", o)
    \/ \E c \in KnownIds : \E a \in BOOLEAN : ToggleOffset(InitOwners[1], "valid", c, a)
    \/ \E c \in KnownIds : DeleteOffset(InitOwners[1], "valid", c)
    \/ Trigger
    \/ SweepGet("cron")
    \/ \E r \in ClockResponses : SweepFetch("cron", r)
    \/ SweepPut("cron")
    \/ SweepReturn("cron")
    \/ CycleTick
    \/ Deliver

SpecOffset == InitOffset /\ [][NextOffset]_vars

----------------------------------------------------------------------------
(* The due check of part_003 by itself: one stored config looked at at two  *)
(* instants a whole number of minutes apart                                 *)

MaxMinutes == 6       \* minutes the sample instants span
MaxShift == 1         \* cycles between the two instants

\* instants at the seconds an offset can name
DueTimes == { m * SecondsPerMinute + sec : m \in 0..MaxMinutes, sec \in DrawnOffsets }

\* configs never executed, or executed by a sweep that began at a sample instant
DueConfigs ==
    { OffsetRecord(1, o) : o \in DrawnOffsets }
    \cup { Merge(OffsetRecord(1, o), [lastExecuted |-> t, lastResult |-> ResultSuccess(0)]) :
              o \in DrawnOffsets, t \in {0, SecondsPerMinute + 1} }

InitDue ==
    /\ variant = "offset"
    /\ kv = <<>>
    /\ nextId = 0
    /\ auth = <<>>
    /\ now = 0
    /\ sweep = [s \in SweepIds |-> IdleSweep]
    /\ tog = IdleToggle
    /\ resp = NoResponse
    /\ nextTok = 1
    /\ norm = NoPath
    /\ call \in { [handler |-> "due", pc |-> "idle", served |-> 0,
                   config |-> c, time |-> t] : c \in DueConfigs, t \in DueTimes }

\* the due check of a sweep that begins at the instant t
DueAt(config, t) == DueOffset(config, t, t)

\* the config is checked at its instant and k cycles away from it
DueCheck(k) ==
    /\ call.handler = "due" /\ call.pc = "idle"
    /\ call.time + k * SecondsPerMinute >= 0
    /\ call' = [handler |-> "due", pc |-> "done", served |-> 1,
                config |-> call.config, time |-> call.time, shift |-> k,
                dueHere |-> DueAt(call.config, call.time),
                dueThere |-> DueAt(call.config, call.time + k * SecondsPerMinute)]
    /\ UNCHANGED <<norm, variant, kv, now, nextId, sweep, tog, resp, auth, nextTok>>

NextDue == \E k \in (0 - MaxShift)..MaxShift : DueCheck(k)

SpecDue == InitDue /\ [][NextDue]_vars

----------------------------------------------------------------------------
(* The analytics handlers: rows and envelopes of the analytics engine, and  *)
(* the visit handler of src/functions/api/visit.js ("visit") and            *)
(* src/unnamed/part_002 ("stats")                                           *)

MaxVisits == 1        \* visit calls answered
MaxCount == 2         \* largest count in a row the engine returns

\* JSON values a query can resolve to
Null == [type |-> "null"]

Arr(items) == [type |-> "array", items |-> items]

Obj(fields) == [type |-> "object", fields |-> fields]

IsArray(v) == v.type = "array"

\* !v: null, 0 and the empty text
Falsy(v) ==
    \/ v.type = "null"
    \/ v.type = "number" /\ v.number = 0
    \/ v.type = "text" /\ v.text = ""

\* result.name of a value that is not null: undefined on anything but an
\* object that has the field
Field(v, name) ==
    IF v.type = "object" /\ name \in DOMAIN v.fields THEN v.fields[name] ELSE Null

\* unwrapRows of visit.js, which knows no .result envelope
UnwrapRowsVisit(result) ==
    IF Falsy(result) THEN <<>>
    ELSE IF IsArray(result) THEN result.items
    ELSE IF IsArray(Field(result, "results")) THEN Field(result, "results").items
    ELSE IF IsArray(Field(result, "data")) THEN Field(result, "data").items
    ELSE IF IsArray(Field(result, "rows")) THEN Field(result, "rows").items
    ELSE <<>>

\* unwrapRows of rank.js, part_001 and part_002
unwrapRows(result) ==
    IF Falsy(result) THEN <<>>
    ELSE IF IsArray(result) THEN result.items
    ELSE IF IsArray(Field(result, "result")) THEN Field(result, "result").items
    ELSE IF IsArray(Field(Field(result, "result"), "data"))
    THEN Field(Field(result, "result"), "data").items
    ELSE IF IsArray(Field(result, "results")) THEN Field(result, "results").items
    ELSE IF IsArray(Field(result, "data")) THEN Field(result, "data").items
    ELSE IF IsArray(Field(result, "rows")) THEN Field(result, "rows").items
    ELSE <<>>

\* a cell of a row: a number, or a text that is no numeral
Number(n) == [type |-> "number", number |-> n]

Text(t) == [type |-> "text", text |-> t]

\* Number(value), or 0 when that is not finite
FiniteOrZero(value) == IF value.type = "number" THEN value.number ELSE 0

\* getNumber(rows, key): the key's column of the first row, or its only
\* column when the key is missing
getNumber(rows, key) ==
    IF rows = <<>> \/ DOMAIN rows[1] = {} THEN 0
    ELSE LET row == rows[1]
         IN  IF key \in DOMAIN row THEN FiniteOrZero(row[key])
             ELSE FiniteOrZero(row[CHOOSE k \in DOMAIN row : TRUE])

\* the query rejected
Failed == [ok |-> FALSE]

Resolved(result) == [ok |-> TRUE, result |-> result]

\* what a SUM or COUNT query can come back with for the column key
NumberOutcomes(key) ==
    {Failed, Resolved(Arr(<<>>)), Resolved(Arr(<<[other |-> Number(1)]>>)),
     Resolved(Arr(<<[k \in {key} |-> Text("many")]>>))}
    \cup { Resolved(Arr(<<[k \in {key} |-> Number(n)]>>)) : n \in 0..MaxCount }

\* queryNumber(env, sql, params, key, fallback)
queryNumber(outcome, key, fallback) ==
    IF outcome.ok THEN getNumber(UnwrapRowsVisit(outcome.result), key) ELSE fallback

\* "/api/": the directory of the request URL /api/visit
RequestDir == <<47, 97, 112, 105, 47>>

\* page parameters: "", "g", "/g", "/g/", "/g//g", "g/g"
PageParams ==
    {<<>>, <<103>>, <<47, 103>>, <<47, 103, 47>>, <<47, 103, 47, 47, 103>>,
     <<103, 47, 103>>}

\* visit.js resolvePath: the pathname of new URL(pageParam, request.url), for
\* parameters of letters and slashes that do not start with "//"
resolvePath(pageParam) ==
    IF pageParam = <<>> THEN <<Slash>>
    ELSE IF Head(pageParam) = Slash THEN pageParam
    ELSE RequestDir \o pageParam

\* request.headers.get(name): null, "" or a value
HeaderValues == {"null", "", "h1"}

\* headers.get(name) || ""
OrEmpty(h) == IF h = "null" THEN "" ELSE h

\* sha256Hex(input): 64 hexadecimal digits that stand for the input
sha256Hex(input) == <<"sha256">> \o input

\* the constant id of a visitor without IP and user-agent
Anonymous == <<"anonymous">>

\* a visitor id that looks at the client IP alone
VisitorIdByIp(ip, ua) ==
    IF OrEmpty(ip) = "" THEN Anonymous
    ELSE sha256Hex(<<OrEmpty(ip), "|", OrEmpty(ua)>>)

getVisitorId(ip, ua) ==
    IF OrEmpty(ip) = "" /\ OrEmpty(ua) = "" THEN Anonymous
    ELSE sha256Hex(<<OrEmpty(ip), "|", OrEmpty(ua)>>)

\* onRequestGet up to the await of recordPageView; without the ANALYTICS
\* binding it answers 500 at once
VisitRequest(pageParam, ip, ua, bound) ==
    /\ Quiet
    /\ call.pc \in {"idle", "done"}
    /\ call.served < MaxVisits
    /\ LET started == [handler |-> "visit", pc |-> "write", served |-> call.served,
                       request |-> [page |-> pageParam, ip |-> ip, ua |-> ua,
                                    bound |-> bound],
                       pagePath |-> normalizePath("rank", resolvePath(pageParam)),
                       visitorId |-> getVisitorId(ip, ua),
                       log |-> <<>>, got |-> <<>>]
       IN  IF bound
           THEN /\ call' = started
                /\ UNCHANGED resp
           ELSE /\ call' = [started EXCEPT !.pc = "done", !.served = @ + 1]
                /\ resp' = Response(500, [error |-> "Missing ANALYTICS binding."],
                                    "visit", Missing)
    /\ UNCHANGED <<norm, variant, kv, now, nextId, sweep, tog, auth, nextTok>>

\* recordPageView: writeDataPoint resolved or threw; the two totals are asked for
VisitWrite(ok) ==
    /\ Quiet
    /\ call.pc = "write"
    /\ call' = [call EXCEPT
           !.pc = "totals",
           !.log = @ \o << [op |-> "write", path |-> call.pagePath,
                            visitor |-> call.visitorId, weight |-> 1, ok |-> ok],
                          [op |-> "query", column |-> "page_pv", path |-> call.pagePath],
                          [op |-> "query", column |-> "site_pv", path |-> <<>>] >>]
    /\ UNCHANGED <<norm, variant, kv, now, nextId, sweep, tog, resp, auth, nextTok>>

\* Promise.all of the page and the site total settled; the visitor count is asked for
VisitTotals(page, site) ==
    /\ Quiet
    /\ call.pc = "totals"
    /\ call' = [call EXCEPT
           !.pc = "unique",
           !.got = [page_pv |-> page, site_pv |-> site],
           !.log = Append(@, [op |-> "query", column |-> "site_uv", path |-> <<>>])]
    /\ UNCHANGED <<norm, variant, kv, now, nextId, sweep, tog, resp, auth, nextTok>>

\* the visitor count settled: the response is sent (a call without debug=1)
VisitUnique(uv) ==
    /\ Quiet
    /\ call.pc = "unique"
    /\ LET pagePv == queryNumber(call.got.page_pv, "pv", 0)
           sitePv == queryNumber(call.got.site_pv, "pv", 0)
           siteUv == queryNumber(uv, "uv", sitePv)
       IN  /\ resp' = Response(200, [page_pv |-> pagePv, site_pv |-> sitePv,
                                     site_uv |-> siteUv], "visit", Missing)
           /\ call' = [call EXCEPT !.pc = "done", !.served = @ + 1,
                                   !.got = [page_pv |-> call.got.page_pv,
                                            site_pv |-> call.got.site_pv,
                                            site_uv |-> uv]]
    /\ UNCHANGED <<norm, variant, kv, now, nextId, sweep, tog, auth, nextTok>>

InitVisit ==
    /\ variant = "multi"
    /\ kv = <<>>
    /\ nextId = 0
    /\ auth = <<>>
    /\ now = 0
    /\ sweep = [s \in SweepIds |-> IdleSweep]
    /\ tog = IdleToggle
    /\ resp = NoResponse
    /\ nextTok = 1
    /\ norm = NoPath
    /\ call = NoCall

NextVisit ==
    \/ \E p \in PageParams : \E ip \in HeaderValues : \E ua \in HeaderValues :
          \E bound \in BOOLEAN : VisitRequest(p, ip, ua, bound)
    \/ \E ok \in BOOLEAN : VisitWrite(ok)
    \/ \E page \in NumberOutcomes("pv") : \E site \in NumberOutcomes("pv") :
          VisitTotals(page, site)
    \/ \E uv \in NumberOutcomes("uv") : VisitUnique(uv)
    \/ Deliver

SpecVisit == InitVisit /\ [][NextVisit]_vars

----------------------------------------------------------------------------
(* unwrapRows by itself, applied to envelopes of every sample shape        *)

MaxFields == 2        \* fields of a sample envelope

EnvelopeFields == {"result", "results", "data", "rows"}

\* what a field of an envelope, or the result itself, can be
EnvelopeLeaves ==
    {Null, Number(1), Arr(<<>>), Arr(<<[pv |-> Number(1)]>>),
     Arr(<<[pv |-> Number(2)]>>), Obj([data |-> Arr(<<[pv |-> Number(0)]>>)]),
     Obj([data |-> Number(1)])}

Envelopes ==
    EnvelopeLeaves
    \cup UNION { { Obj(f) : f \in [names -> EnvelopeLeaves] } :
                    names \in { n \in SUBSET EnvelopeFields : Cardinality(n) <= MaxFields } }

UnwrapImpls == {"rank", "visit"}

InitUnwrap ==
    /\ variant = "multi"
    /\ kv = <<>>
    /\ nextId = 0
    /\ auth = <<>>
    /\ now = 0
    /\ sweep = [s \in SweepIds |-> IdleSweep]
    /\ tog = IdleToggle
    /\ resp = NoResponse
    /\ nextTok = 1
    /\ norm = NoPath
    /\ call \in { [handler |-> "unwrap", pc |-> "idle", served |-> 0,
                   impl |-> f, result |-> e] : f \in UnwrapImpls, e \in Envelopes }

\* unwrapRows(result) returned
Unwrap ==
    /\ call.handler = "unwrap" /\ call.pc = "idle"
    /\ call' = [handler |-> "unwrap", pc |-> "done", served |-> 1,
                impl |-> call.impl, result |-> call.result,
                rows |-> IF call.impl = "visit" THEN UnwrapRowsVisit(call.result)
                         ELSE unwrapRows(call.result)]
    /\ UNCHANGED <<norm, variant, kv, now, nextId, sweep, tog, resp, auth, nextTok>>

NextUnwrap == Unwrap

SpecUnwrap == InitUnwrap /\ [][NextUnwrap]_vars

----------------------------------------------------------------------------
(* The SQL gateway: formatSqlValue and formatSqlWithParams of rank.js,      *)
(* part_001 and part_002, on strings of character codes                     *)

MaxSqlLen == 3        \* characters of a sample query
MaxParams == 2        \* parameters of a sample call
MaxInterval == 1      \* the longest interval passed to rateLimit, in milliseconds
MaxRateCalls == 2     \* calls of rateLimit in one behaviour
MaxTicks == 2         \* single milliseconds the clock advances by
MaxStall == 1         \* milliseconds from a thread's clock reading to its compareAndSet

\* "'"
Quote == 39

\* "?"
Question == 63

\* "a"
Letter == 97

\* a string parameter
Str(chars) == [type |-> "string", chars |-> chars]

\* the number Infinity
Infinity == [type |-> "infinity"]

\* "NULL"
NullWord == <<78, 85, 76, 76>>

\* "Infinity"
InfinityWord == <<73, 110, 102, 105, 110, 105, 116, 121>>

\* String(n) of a natural number: its decimal digits
RECURSIVE Digits(_)
Digits(n) ==
    IF n < 10 THEN <<48 + n>> ELSE Digits(n \div 10) \o <<48 + (n % 10)>>

\* String(value) of a value that is not null
StringOf(value) ==
    IF value.type = "string" THEN value.chars
    ELSE IF value.type = "number" THEN Digits(value.number)
    ELSE InfinityWord

\* s.replace(/'/g, "''")
RECURSIVE DoubleQuotes(_)
DoubleQuotes(chars) ==
    IF chars = <<>> THEN <<>>
    ELSE IF Head(chars) = Quote THEN <<Quote, Quote>> \o DoubleQuotes(Tail(chars))
    ELSE <<Head(chars)>> \o DoubleQuotes(Tail(chars))

\* a rendering that quotes the string as it is
FormatSqlValueRaw(value) ==
    IF value.type = "null" THEN NullWord
    ELSE IF value.type = "number" THEN Digits(value.number)
    ELSE <<Quote>> \o StringOf(value) \o <<Quote>>

formatSqlValue(value) ==
    IF value.type = "null" THEN NullWord
    ELSE IF value.type = "number" THEN Digits(value.number)
    ELSE <<Quote>> \o DoubleQuotes(StringOf(value)) \o <<Quote>>

\* params[index], undefined past the end (rendered like null)
ParamAt(params, index) == IF index <= Len(params) THEN params[index] ELSE Null

\* sql.replace(/\?/g, () => formatSqlValue(params[index++])): one pass over
\* the query from position i on, index counting the matches
RECURSIVE ReplaceFrom(_, _, _, _)
ReplaceFrom(sql, params, i, index) ==
    IF i > Len(sql) THEN <<>>
    ELSE IF sql[i] = Question
    THEN formatSqlValue(ParamAt(params, index)) \o ReplaceFrom(sql, params, i + 1, index + 1)
    ELSE <<sql[i]>> \o ReplaceFrom(sql, params, i + 1, index)

formatSqlWithParams(sql, params) ==
    IF Len(params) = 0 THEN sql ELSE ReplaceFrom(sql, params, 1, 1)

\* strings of up to n of the characters
StringsOver(chars, n) == UNION { [1..m -> chars] : m \in 0..n }

SqlTexts == StringsOver({Question, Quote, Letter}, MaxSqlLen)

\* null, 0, 12, Infinity, "", "'", "?" and "a'?"
ParamValues ==
    {Null, Number(0), Number(12), Infinity, Str(<<>>), Str(<<Quote>>),
     Str(<<Question>>), Str(<<Letter, Quote, Question>>)}

ParamLists == StringsOver(ParamValues, MaxParams)

InitSql ==
    /\ variant = "multi"
    /\ kv = <<>>
    /\ nextId = 0
    /\ auth = <<>>
    /\ now = 0
    /\ sweep = [s \in SweepIds |-> IdleSweep]
    /\ tog = IdleToggle
    /\ resp = NoResponse
    /\ nextTok = 1
    /\ norm = NoPath
    /\ call \in { [handler |-> "sql", pc |-> "idle", served |-> 0,
                   sql |-> q, params |-> ps] : q \in SqlTexts, ps \in ParamLists }

\* runSqlApi builds the query it sends
FormatSql ==
    /\ call.handler = "sql" /\ call.pc = "idle"
    /\ call' = [handler |-> "sql", pc |-> "done", served |-> 1,
                sql |-> call.sql, params |-> call.params,
                finalSql |-> formatSqlWithParams(call.sql, call.params)]
    /\ UNCHANGED <<norm, variant, kv, now, nextId, sweep, tog, resp, auth, nextTok>>

NextSql == FormatSql

SpecSql == InitSql /\ [][NextSql]_vars

----------------------------------------------------------------------------
(* The rank handler of src/functions/api/rank.js, whose page list           *)
(* src/unnamed/part_001 builds with normalizePages                          *)

MaxRows == 2          \* rows of the page query

\* stored paths of the data set: "/", "/g", "g", "/g.g"
StoredPaths == {<<47>>, <<47, 103>>, <<103>>, <<47, 103, 46, 103>>}

\* the envelope of the SQL API around the rows of a query
Envelope(rows) == Obj([data |-> Arr(rows), rows |-> Number(Len(rows))])

\* the engine groups by stored path and orders by pv descending
GroupedSorted(rows) ==
    /\ \A i, j \in 1..Len(rows) : i # j => rows[i].path # rows[j].path
    /\ \A i \in 1..(Len(rows) - 1) : rows[i].pv.number >= rows[i + 1].pv.number

\* what SELECT index1 AS path, SUM(double1) AS pv ... GROUP BY index1
\* ORDER BY pv DESC can return
PageRows ==
    UNION { { rows \in [1..n -> [path : StoredPaths,
                                 pv : {Number(c) : c \in 1..MaxCount}]] :
                GroupedSorted(rows) } : n \in 0..MaxRows }

PageOutcomes == {Failed} \cup { Resolved(Envelope(rows)) : rows \in PageRows }

\* the total of one window
WindowOutcomes == {Failed, Resolved(Envelope(<<[pv |-> Number(1)]>>))}

\* the total of all views, with or without the envelope
TotalOutcomes ==
    WindowOutcomes \cup {Resolved(Arr(<<>>)), Resolved(Envelope(<<[pv |-> Text("many")]>>))}
    \cup { Resolved(Envelope(<<[pv |-> Number(n)]>>)) : n \in 0..MaxCount }

\* queryNumber of rank.js with the key "pv" and the fallback 0
RankNumber(outcome) ==
    IF outcome.ok THEN getNumber(unwrapRows(outcome.result), "pv") ELSE 0

\* queryRows
queryRows(outcome) == IF outcome.ok THEN unwrapRows(outcome.result) ELSE <<>>

\* item.path || item.index1 || ""
StoredPath(item) ==
    IF "path" \in DOMAIN item /\ item.path # <<>> THEN item.path
    ELSE IF "index1" \in DOMAIN item /\ item.index1 # <<>> THEN item.index1
    ELSE <<>>

\* the entry normalizePages makes of a row
PageEntry(item) ==
    [path |-> normalizePath("rank", StoredPath(item)), pv |-> FiniteOrZero(item.pv)]

KeptEntry(entry) == entry.path # <<>> /\ entry.path # <<Slash>>

\* normalizePages, and the same map and filter inline in rank.js
normalizePages(pages) ==
    SelectSeq([i \in 1..Len(pages) |-> PageEntry(pages[i])], KeptEntry)

\* onRequestGet of rank.js: the five queries settled and the response is sent
RankRequest(total, month, week, day, pages) ==
    /\ Quiet
    /\ call.pc = "idle"
    /\ call' = [handler |-> "rank", pc |-> "done", served |-> call.served + 1,
                got |-> [total |-> total, month |-> month, week |-> week,
                         day |-> day, pages |-> pages]]
    /\ resp' = Response(200,
                        [summary |-> [total |-> RankNumber(total),
                                      month |-> RankNumber(month),
                                      week |-> RankNumber(week),
                                      day |-> RankNumber(day)],
                         pages |-> normalizePages(queryRows(pages))],
                        "rank", Missing)
    /\ UNCHANGED <<norm, variant, kv, now, nextId, sweep, tog, auth, nextTok>>

NextRank ==
    \/ \E pages \in PageOutcomes : \E total \in TotalOutcomes :
          \E month, week, day \in WindowOutcomes :
             RankRequest(total, month, week, day, pages)
    \/ Deliver

SpecRank == InitVisit /\ [][NextRank]_vars

----------------------------------------------------------------------------
(* Logins of the token variants that run side by side (worker.ts, part_003): *)
(* createOrGetUserAuth reads the auth record and, when there is none, writes *)
(* one in a later step. call holds the logins in flight and the pairs of     *)
(* userId as sent and token that logins have answered.                       *)

\* the shortest userId loginUser accepts, after trim()
MinUserIdLength == 3

\* userId.trim()
TrimmedUserId(u) == TrimEnd(TrimStart(u))

\* the requests that can be logging in at once
LoginClients == {"a", "b"}

\* the userId strings a login sends: plain, with a leading space, too short
SentIds == {<<Letter, Letter, Letter>>, <<32, Letter, Letter, Letter>>,
            <<Letter, Letter>>}

IdleLogin == [pc |-> "idle", sent |-> Missing, userId |-> Missing,
              token |-> MissingToken]

InitLogin ==
    /\ variant \in {"single", "offset"}
    /\ kv = <<>>
    /\ nextId = 0
    /\ auth = <<>>
    /\ now = 0
    /\ sweep = [s \in SweepIds |-> IdleSweep]
    /\ tog = IdleToggle
    /\ resp = NoResponse
    /\ nextTok = 1
    /\ norm = NoPath
    /\ call = [handler |-> "login", pc |-> "open", served |-> 0,
               logins |-> [c \in LoginClients |-> IdleLogin], issued |-> {}]

SetLogin(c, l) == [call EXCEPT !.logins[c] = l]

\* loginUser up to the answer of env.KV_BINDING.get(authKey) in
\* createOrGetUserAuth: 400, or the stored token, or a new token to store
LoginGet(c, sent) ==
    /\ Quiet
    /\ call.logins[c].pc = "idle"
    /\ LET userId == TrimmedUserId(sent)
       IN  IF sent = Missing \/ Len(userId) < MinUserIdLength
           THEN /\ resp' = Response(400, ErrorBody, "login", sent)
                /\ UNCHANGED <<call, nextTok>>
           ELSE IF userId \in DOMAIN auth
           THEN /\ call' = SetLogin(c, [pc |-> "return", sent |-> sent,
                                        userId |-> userId,
                                        token |-> auth[userId].userToken])
                /\ UNCHANGED <<resp, nextTok>>
           ELSE /\ nextTok <= MaxTokens
                /\ call' = SetLogin(c, [pc |-> "put", sent |-> sent,
                                        userId |-> userId,
                                        token |-> TokenOf(userId, nextTok)])
                /\ nextTok' = nextTok + 1
                /\ resp' = resp
    /\ UNCHANGED <<norm, variant, kv, now, nextId, sweep, tog, auth>>

\* env.KV_BINDING.put(authKey, JSON.stringify(auth)) of createOrGetUserAuth
LoginPut(c) ==
    /\ Quiet
    /\ call.logins[c].pc = "put"
    /\ LET l == call.logins[c]
       IN  /\ auth' = Assoc(auth, l.userId,
                            [userId |-> l.userId, userToken |-> l.token,
                             createdAt |-> now])
           /\ call' = SetLogin(c, [l EXCEPT !.pc = "return"])
    /\ UNCHANGED <<norm, variant, kv, now, nextId, sweep, tog, resp, nextTok>>

\* loginUser answers { success, userToken }
LoginReturn(c) ==
    /\ Quiet
    /\ call.logins[c].pc = "return"
    /\ LET l == call.logins[c]
       IN  /\ resp' = Response(200, [success |-> TRUE, userToken |-> l.token],
                               "login", l.sent)
           /\ call' = [SetLogin(c, IdleLogin) EXCEPT
                          !.issued = @ \cup {[sent |-> l.sent, token |-> l.token]}]
    /\ UNCHANGED <<norm, variant, kv, now, nextId, sweep, tog, auth, nextTok>>

\* an authenticated GET (worker.ts getUserConfig, part_003 getUserConfigs)
\* that carries a userId as it was sent to a login and the token answered
AuthedGet(sent, token) ==
    /\ Quiet
    /\ LET gate == Gate(auth, sent, token, "GET", FALSE)
       IN  resp' = IF gate # 0 THEN Response(gate, ErrorBody, "list", sent)
                   ELSE IF variant = "single"
                   THEN Response(404, ErrorBody, "list", sent)
                   ELSE Response(200, [configs |-> <<>>], "list", sent)
    /\ UNCHANGED <<call, norm, variant, kv, now, nextId, sweep, tog, auth, nextTok>>

LoginSteps ==
    \/ \E c \in LoginClients : \E sent \in SentIds : LoginGet(c, sent)
    \/ \E c \in LoginClients : LoginPut(c)
    \/ \E c \in LoginClients : LoginReturn(c)
    \/ \E i \in call.issued : AuthedGet(i.sent, i.token)

NextLogin == Deliver \/ LoginSteps

SpecLogin == InitLogin /\ [][NextLogin]_vars

----------------------------------------------------------------------------
(* Delete and login again in worker.ts: call holds the pairs of userId and   *)
(* token with which a delete has succeeded                                   *)

InitRevoke ==
    /\ variant = "single"
    /\ kv \in InitStores(variant, MaxInitKeys, {"active"})
    /\ nextId = MaxInitKeys
    /\ auth = InitAuth(variant, MaxInitKeys)
    /\ now = 0
    /\ sweep = [s \in SweepIds |-> IdleSweep]
    /\ tog = IdleToggle
    /\ resp = NoResponse
    /\ nextTok = 1
    /\ norm = NoPath
    /\ call = [handler |-> "delete", pc |-> "open", served |-> 0, revoked |-> {}]

\* DELETE /api/hangup/delete, remembering the pair when it succeeds
DeleteTracked(userId, cred) ==
    /\ DeleteUserConfig(userId, TokenSent(auth, userId, cred))
    /\ call' = IF resp'.status = 200
               THEN [call EXCEPT !.revoked =
                        @ \cup {[userId |-> userId,
                                 token |-> TokenSent(auth, userId, cred)]}]
               ELSE call

\* the endpoints of worker.ts behind getUserFromRequest and verifyUserAuth,
\* with the method and whether the handler calls request.clone()
Endpoints ==
    {[op |-> "create", method |-> "POST", clones |-> TRUE],
     [op |-> "get", method |-> "GET", clones |-> FALSE],
     [op |-> "toggle", method |-> "POST", clones |-> TRUE],
     [op |-> "test", method |-> "POST", clones |-> FALSE]}

\* a request to endpoint e with a pair that a delete was sent with: what the
\* checks at the head of the handler answer (200 stands for going on)
RevokedRequest(r, e) ==
    /\ Quiet
    /\ variant = "single"
    /\ LET gate == Gate(auth, r.userId, r.token, e.method, e.clones)
       IN  resp' = IF gate # 0 THEN Response(gate, ErrorBody, e.op, r.userId)
                   ELSE Response(200, [success |-> TRUE], e.op, r.userId)
    /\ UNCHANGED <<call, norm, variant, kv, now, nextId, sweep, tog, auth, nextTok>>

\* a second delete with such a pair
RevokedDelete(r) ==
    /\ DeleteUserConfig(r.userId, r.token)
    /\ call' = call

RevokeSteps ==
    \/ \E u \in UserIds : Login(u)
    \/ \E u \in Callers : \E cred \in Credentials : DeleteTracked(u, cred)
    \/ \E r \in call.revoked : \E e \in Endpoints : RevokedRequest(r, e)
    \/ \E r \in call.revoked : RevokedDelete(r)

NextRevoke == Deliver \/ RevokeSteps

SpecRevoke == InitRevoke /\ [][NextRevoke]_vars

----------------------------------------------------------------------------
(* worker.ts with its sweep beside save, toggle and delete *)

InitSingle ==
    /\ variant = "single"
    /\ kv \in InitStores(variant, MaxInitKeys, {"active", "swept"})
    /\ nextId = MaxInitKeys
    /\ auth = InitAuth(variant, MaxInitKeys)
    /\ now = 0
    /\ sweep = [s \in SweepIds |-> IdleSweep]
    /\ tog = IdleToggle
    /\ resp = NoResponse
    /\ nextTok = 1
    /\ norm = NoPath
    /\ call = NoCall

SingleSteps ==
    \/ \E u \in UserIds : Login(u)
    \/ \E u \in UserIds : \E cred \in Credentials : SaveSingle(u, cred, "ck2")
    \/ \E u \in UserIds : \E cred \in Credentials : \E a \in BOOLEAN :
          ToggleSingle(u, cred, a)
    \/ \E u \in UserIds : \E cred \in Credentials : DeleteSingle(u, cred)
    \/ SweepStart("cron")
    \/ SweepGet("cron")
    \/ \E r \in RaceResponses : SweepFetch("cron", r)
    \/ SweepPut("cron")
    \/ SweepReturn("cron")

NextSingle == Deliver \/ SingleSteps

SpecSingle == InitSingle /\ [][NextSingle]_vars

----------------------------------------------------------------------------
(* ctx.rateLimit of src/js/util.js for one key: threads that read the clock, *)
(* read the shared timer, try to move it with compareAndSet and sleep when   *)
(* they may not. now is System.currentTimeMillis(); call holds the interval, *)
(* the AtomicLong, the threads and the timestamps claimed, oldest first.     *)

RateThreads == {"t1", "t2"}

\* interval - elapsed + 20; Math.min(wait, 500); the sleep when wait <= 0
SleepPad == 20
SleepCap == 500
ShortSleep == 20

\* the argument of Thread.sleep
SleepFor(interval, elapsed) ==
    LET wait == interval - elapsed + SleepPad
    IN  IF wait > 0 THEN (IF wait < SleepCap THEN wait ELSE SleepCap) ELSE ShortSleep

\* compareAndSet without the comparison
ElapsedEnough(th, timer, interval) == th.now - th.last >= interval

\* elapsed >= interval && timer.compareAndSet(last, now)
CanClaim(th, timer, interval) ==
    /\ th.now - th.last >= interval
    /\ timer = th.last

IdleThread == [pc |-> "idle", now |-> 0, last |-> 0, wake |-> 0]

\* the timer is new AtomicLong(0); the clock is past the interval
InitRate ==
    /\ variant = "multi"
    /\ kv = <<>>
    /\ nextId = 0
    /\ auth = <<>>
    /\ now = MaxInterval
    /\ sweep = [s \in SweepIds |-> IdleSweep]
    /\ tog = IdleToggle
    /\ resp = NoResponse
    /\ nextTok = 1
    /\ norm = NoPath
    /\ \E interval \in 0..MaxInterval :
          call = [handler |-> "rateLimit", pc |-> "open", served |-> 0,
                  interval |-> interval, timer |-> 0, ticks |-> 0,
                  threads |-> [t \in RateThreads |-> IdleThread],
                  claims |-> <<>>]

SetThread(t, th) == [call EXCEPT !.threads[t] = th]

\* a thread calls rateLimit(key, interval) and finds the timer of the key
RateCall(t) ==
    /\ call.threads[t].pc = "idle"
    /\ call.served < MaxRateCalls
    /\ call' = [SetThread(t, [call.threads[t] EXCEPT !.pc = "clock"])
                   EXCEPT !.served = @ + 1]
    /\ UNCHANGED <<variant, kv, now, nextId, sweep, tog, resp, auth, nextTok, norm>>

\* let now = System.currentTimeMillis()
RateClock(t) ==
    /\ call.threads[t].pc = "clock"
    /\ call' = SetThread(t, [call.threads[t] EXCEPT !.pc = "get", !.now = now])
    /\ UNCHANGED <<variant, kv, now, nextId, sweep, tog, resp, auth, nextTok, norm>>

\* let last = timer.get()
RateGet(t) ==
    /\ call.threads[t].pc = "get"
    /\ call' = SetThread(t, [call.threads[t] EXCEPT !.pc = "cas",
                                                    !.last = call.timer])
    /\ UNCHANGED <<variant, kv, now, nextId, sweep, tog, resp, auth, nextTok, norm>>

\* the if: return after a compareAndSet that succeeds, else Thread.sleep
RateDecide(t) ==
    /\ call.threads[t].pc = "cas"
    /\ LET th == call.threads[t]
       IN  IF CanClaim(th, call.timer, call.interval)
           THEN call' = [SetThread(t, IdleThread) EXCEPT
                            !.timer = th.now,
                            !.claims = Append(@, th.now)]
           ELSE call' = SetThread(t, [th EXCEPT
                            !.pc = "sleep",
                            !.wake = now + SleepFor(call.interval, th.now - th.last)])
    /\ UNCHANGED <<variant, kv, now, nextId, sweep, tog, resp, auth, nextTok, norm>>

\* Thread.sleep returns when its time has passed
RateWake(t) ==
    /\ call.threads[t].pc = "sleep"
    /\ now >= call.threads[t].wake
    /\ call' = SetThread(t, [call.threads[t] EXCEPT !.pc = "clock"])
    /\ UNCHANGED <<variant, kv, now, nextId, sweep, tog, resp, auth, nextTok, norm>>

\* a millisecond passes
RateTick ==
    /\ call.ticks < MaxTicks
    /\ now' = now + 1
    /\ call' = [call EXCEPT !.ticks = @ + 1]
    /\ UNCHANGED <<variant, kv, nextId, sweep, tog, resp, auth, nextTok, norm>>

\* the wake times ahead of the clock
Wakes == {call.threads[t].wake : t \in {u \in RateThreads :
              call.threads[u].pc = "sleep" /\ call.threads[u].wake > now}}

\* time passes up to the next wake time
RateAdvance ==
    /\ Wakes # {}
    /\ now' = CHOOSE w \in Wakes : \A x \in Wakes : w <= x
    /\ UNCHANGED <<call, variant, kv, nextId, sweep, tog, resp, auth, nextTok, norm>>

NextRate ==
    \/ \E t \in RateThreads : RateCall(t)
    \/ \E t \in RateThreads : RateClock(t)
    \/ \E t \in RateThreads : RateGet(t)
    \/ \E t \in RateThreads : RateDecide(t)
    \/ \E t \in RateThreads : RateWake(t)
    \/ RateTick
    \/ RateAdvance

SpecRate == InitRate /\ [][NextRate]_vars

----------------------------------------------------------------------------
(* ctx.rateLimit with threads that call without end. Times are kept as       *)
(* differences, which is all the loop reads: age is currentTimeMillis()      *)
(* minus the timer; a thread holds how long ago it read the clock (stale),   *)
(* its elapsed, whether the timer still holds the last it read (fresh), and  *)
(* the milliseconds its sleep has left (rest). A thread takes at most        *)
(* MaxStall milliseconds from reading the clock to its compareAndSet.        *)

\* beyond this age every elapsed passes the test and gives the short sleep
AgeCap(interval) == interval + SleepPad + MaxStall

RestingThread == [pc |-> "idle", stale |-> 0, elapsed |-> 0, fresh |-> FALSE,
                  rest |-> 0]

InitFair ==
    /\ variant = "multi"
    /\ kv = <<>>
    /\ nextId = 0
    /\ auth = <<>>
    /\ now = 0
    /\ sweep = [s \in SweepIds |-> IdleSweep]
    /\ tog = IdleToggle
    /\ resp = NoResponse
    /\ nextTok = 1
    /\ norm = NoPath
    /\ \E interval \in 0..MaxInterval :
          call = [handler |-> "rateLimit", pc |-> "open", served |-> 0,
                  interval |-> interval, age |-> AgeCap(interval),
                  threads |-> [t \in RateThreads |-> RestingThread]]

\* a thread calls rateLimit(key, interval)
FairCall(t) ==
    /\ call.threads[t].pc = "idle"
    /\ call' = SetThread(t, [call.threads[t] EXCEPT !.pc = "clock"])
    /\ UNCHANGED <<variant, kv, now, nextId, sweep, tog, resp, auth, nextTok, norm>>

\* let now = System.currentTimeMillis()
FairClock(t) ==
    /\ call.threads[t].pc = "clock"
    /\ call' = SetThread(t, [call.threads[t] EXCEPT !.pc = "get", !.stale = 0])
    /\ UNCHANGED <<variant, kv, now, nextId, sweep, tog, resp, auth, nextTok, norm>>

\* let last = timer.get(); let elapsed = now - last
FairGet(t) ==
    /\ call.threads[t].pc = "get"
    /\ call' = SetThread(t, [call.threads[t] EXCEPT
                                !.pc = "cas",
                                !.elapsed = call.age - call.threads[t].stale,
                                !.fresh = TRUE])
    /\ UNCHANGED <<variant, kv, now, nextId, sweep, tog, resp, auth, nextTok, norm>>

\* the threads after t has set the timer to its now: those that had read
\* another value as last will fail their compareAndSet
AfterClaim(t) ==
    [u \in RateThreads |->
        IF u = t THEN RestingThread
        ELSE [call.threads[u] EXCEPT
                 !.fresh = @ /\ call.threads[t].elapsed = 0]]

\* the if: return after a compareAndSet that succeeds, else Thread.sleep
FairDecide(t) ==
    /\ call.threads[t].pc = "cas"
    /\ LET th == call.threads[t]
       IN  IF th.elapsed >= call.interval /\ th.fresh
           THEN call' = [call EXCEPT !.age = th.stale, !.threads = AfterClaim(t)]
           ELSE call' = SetThread(t, [th EXCEPT
                            !.pc = "sleep",
                            !.rest = SleepFor(call.interval, th.elapsed)])
    /\ UNCHANGED <<variant, kv, now, nextId, sweep, tog, resp, auth, nextTok, norm>>

\* Thread.sleep returns when its time has passed
FairWake(t) ==
    /\ call.threads[t].pc = "sleep"
    /\ call.threads[t].rest = 0
    /\ call' = SetThread(t, [call.threads[t] EXCEPT !.pc = "clock"])
    /\ UNCHANGED <<variant, kv, now, nextId, sweep, tog, resp, auth, nextTok, norm>>

\* a thread one millisecond later
Later(th) ==
    IF th.pc \in {"get", "cas"} THEN [th EXCEPT !.stale = @ + 1]
    ELSE IF th.pc = "sleep" /\ th.rest > 0 THEN [th EXCEPT !.rest = @ - 1]
    ELSE th

\* a millisecond passes
FairTick ==
    /\ \A t \in RateThreads :
          call.threads[t].pc \in {"get", "cas"} => call.threads[t].stale < MaxStall
    /\ call' = [call EXCEPT
                   !.age = IF @ < AgeCap(call.interval) THEN @ + 1 ELSE @,
                   !.threads = [t \in RateThreads |-> Later(call.threads[t])]]
    /\ UNCHANGED <<variant, kv, now, nextId, sweep, tog, resp, auth, nextTok, norm>>

\* the steps of a call of thread t once it is made
FairStep(t) == FairClock(t) \/ FairGet(t) \/ FairDecide(t) \/ FairWake(t)

NextFair ==
    \/ \E t \in RateThreads : FairCall(t)
    \/ \E t \in RateThreads : FairStep(t)
    \/ FairTick

\* the clock keeps advancing and every thread in a call keeps being scheduled
SpecRateFair ==
    /\ InitFair
    /\ [][NextFair]_vars
    /\ WF_vars(FairTick)
    /\ \A t \in RateThreads : WF_vars(FairStep(t))

\* everything together
Next == NextSweep \/ NextRace \/ NextApi \/ NextToken \/ NextCreate \/ NextClock \/ NextGuard
            \/ NextPath \/ NextVisit \/ NextRank
            \/ NextOffset \/ NextDue \/ NextUnwrap \/ NextSql \/ NextLogin \/ NextRevoke \/ NextSingle \/ NextRate \/ NextFair

Spec == InitSweep /\ [][Next]_vars

----------------------------------------------------------------------------
(* Properties of one sweep (SpecSweep) *)

KeysOf(sw) == {sw.keys[i] : i \in 1..Len(sw.keys)}

\* C1: in part_004 and worker.ts, a sweep that met no store failure and no
\* undecodable value has, when it returns, loaded every listed key, called
\* out for every config it loaded active - also after an outbound call of
\* the same sweep threw or reported failure - and written every config it
\* called out for, the failed ones included, with lastExecuted set in this
\* sweep.
SweepIsolation ==
    \A s \in SweepIds :
        LET sw == sweep[s]
        IN  (/\ variant \in {"multi", "single"}
             /\ sw.pc = "done"
             /\ ~sw.storeErr
             /\ ~sw.decodeErr)
            => /\ sw.visited = KeysOf(sw)
               /\ \A k \in DOMAIN sw.loaded :
                      IsActive(sw.loaded[k]) => k \in sw.attempted
               /\ sw.attempted \subseteq sw.puts
               /\ \A k \in sw.attempted :
                      /\ Has(kv[k], "lastExecuted")
                      /\ Has(kv[k], "lastResult")
                      /\ kv[k].lastExecuted >= sw.t0
                      /\ kv[k].lastExecuted <= now

\* a returned sweep in which an outbound call failed for one config and a
\* config listed after it was still called out for and written
SweepIsolationWitness ==
    \E s \in SweepIds :
        LET sw == sweep[s]
        IN  /\ variant \in {"multi", "single"}
            /\ sw.pc = "done"
            /\ ~sw.storeErr
            /\ ~sw.decodeErr
            /\ \E k1 \in sw.failedOut :
                  \E k2 \in sw.attempted \ sw.failedOut :
                      /\ KeyLess(k1, k2)
                      /\ {k1, k2} \subseteq sw.puts
                      /\ kv[k1].lastResult.kind # "success"

\* C2 (as claimed): a sweep whose store calls all succeeded has loaded every
\* key of its listing when it returns, whatever values were stored: a value
\* that is not valid JSON is skipped, the other keys are still processed.
CorruptValueSkipped ==
    \A s \in SweepIds :
        LET sw == sweep[s]
        IN  (sw.pc = "done" /\ ~sw.storeErr) => sw.visited = KeysOf(sw)

\* C3: a config that a sweep loaded with isActive false is not called out
\* for and not written by that sweep; its stored record stays as loaded.
InactiveUntouched ==
    \A s \in SweepIds :
        \A k \in sweep[s].inactive :
            /\ k \notin sweep[s].attempted
            /\ k \notin sweep[s].puts
            /\ k \in DOMAIN kv
            /\ kv[k] = sweep[s].loaded[k]

\* a returned sweep that skipped an inactive config and called out for an
\* active one
InactiveUntouchedWitness ==
    \E s \in SweepIds :
        /\ sweep[s].pc = "done"
        /\ sweep[s].inactive # {}
        /\ sweep[s].puts # {}

\* C4 (as claimed): in part_004, every record a sweep has written, no other
\* operation touching it, holds lastExecuted and lastResult and an
\* executionCount exactly one greater than the value loaded, under the key
\* the sweep loaded it from.
AttemptAddsOne ==
    \A s \in SweepIds :
        LET sw == sweep[s]
        IN  \A k \in sw.puts :
                variant = "multi"
                    => /\ k \in DOMAIN sw.loaded
                       /\ Has(kv[k], "lastExecuted")
                       /\ Has(kv[k], "lastResult")
                       /\ Has(kv[k], "executionCount")
                       /\ kv[k].executionCount = CountOf(sw.loaded[k]) + 1

\* C5: no exception leaves the sweep, whatever list, get, put and the
\* outbound call do.
SweepNeverThrows == \A s \in SweepIds : ~sweep[s].escaped

\* a sweep that ended in its outer catch after a store call was rejected
SweepNeverThrowsWitness ==
    \E s \in SweepIds :
        /\ sweep[s].pc = "done"
        /\ sweep[s].aborted
        /\ sweep[s].storeErr

\* C6 (as claimed): a record written by a sweep says success only if the
\* response was ok and its body did not hold the not-logged-in marker.
SuccessNeedsOkAndNoMarker ==
    \A s \in SweepIds :
        \A k \in sweep[s].puts :
            kv[k].lastResult.kind = "success" => k \notin sweep[s].failedOut

----------------------------------------------------------------------------
(* Properties of overlapping operations of part_004 (SpecRace) *)

\* the sweeps whose put() of key k succeeds in this step
PutsNow(k) ==
    {s \in SweepIds : k \in sweep'[s].puts /\ k \notin sweep[s].puts}

\* C7: nothing serializes two sweeps: each successful put() of a sweep
\* leaves in the store exactly the copy that sweep loaded and updated,
\* whatever another sweep has written under the key since the load, so the
\* last writer's record stands and an earlier attempt's count is lost.
LastWriterWins ==
    [][\A s \in SweepIds :
          \A k \in sweep'[s].puts \ sweep[s].puts :
              /\ kv'[k] = sweep[s].config
              /\ kv'[k].executionCount > CountOf(sweep[s].loaded[k])
              /\ kv'[k].executionCount <= CountOf(sweep[s].loaded[k]) + 2]_vars

\* both sweeps loaded the same record with the same count, both called out
\* and wrote, and the stored count is one greater than the count loaded
LastWriterWinsWitness ==
    \E k \in DOMAIN kv :
        /\ \A s \in SweepIds :
               /\ k \in sweep[s].puts
               /\ k \in sweep[s].attempted
        /\ CountOf(sweep["cron"].loaded[k]) = CountOf(sweep["manual"].loaded[k])
        /\ kv[k].executionCount = CountOf(sweep["cron"].loaded[k]) + 1

\* lastExecuted, lastResult and executionCount as stored in a record
BookOf(config) ==
    [f \in DOMAIN config \cap {"lastExecuted", "lastResult", "executionCount"} |->
        config[f]]

\* C8 (as claimed): in every step, a stored record's lastExecuted,
\* lastResult and executionCount change only if a sweep writes the record
\* in that step, and a record stored under a new key by anything but a
\* sweep holds no lastExecuted and no lastResult.
BookkeepingOnlyBySweep ==
    [][\A k \in DOMAIN kv' :
          \/ PutsNow(k) # {}
          \/ IF k \in DOMAIN kv
             THEN BookOf(kv'[k]) = BookOf(kv[k])
             ELSE /\ ~Has(kv'[k], "lastExecuted")
                  /\ ~Has(kv'[k], "lastResult")]_vars

----------------------------------------------------------------------------
(* Properties of the responses (SpecApi) *)

\* the configs a response to list or get-config carries
Returned(r) ==
    IF r.status = 200 /\ r.request.op = "list" THEN r.body.configs
    ELSE IF r.status = 200 /\ r.request.op = "get" THEN <<r.body>>
    ELSE <<>>

\* the fields of a returned config that hold strings
StringFields == {"configId", "configName", "stvUID", "cookie"}

\* C9: a config returned by list or get-config has no cookie field and
\* none of its string fields holds a cookie value.
NoCookieReturned ==
    \A i \in 1..Len(Returned(resp)) :
        LET config == Returned(resp)[i]
        IN  /\ ~Has(config, "cookie")
            /\ \A f \in StringFields \cap DOMAIN config : config[f] \notin Cookies

\* the stored record a returned config was made from
IsSourceOf(stored, config) ==
    /\ IsValidJson(stored)
    /\ IF Has(config, "configId")
       THEN Has(stored, "configId") /\ stored.configId = config.configId
       ELSE stored.userId = config.userId

\* a response carries a config whose stored record holds a cookie and was
\* written by a sweep
NoCookieReturnedWitness ==
    \E i \in 1..Len(Returned(resp)) :
        \E k \in DOMAIN kv :
            /\ IsSourceOf(kv[k], Returned(resp)[i])
            /\ Has(kv[k], "cookie")
            /\ kv[k].cookie \in Cookies
            /\ Has(kv[k], "lastExecuted")

\* C10 (as claimed): every config in a list or get-config response for
\* userId U was made from a record whose stored userId is U.
OwnRecordsOnly ==
    \A i \in 1..Len(Returned(resp)) :
        \A k \in DOMAIN kv :
            IsSourceOf(kv[k], Returned(resp)[i])
                => kv[k].userId = resp.request.userId

----------------------------------------------------------------------------
(* Properties of the token handlers (SpecToken) *)

\* the request of userId with credential cred carries the stored token
Authorized(userId, cred) ==
    /\ userId \in DOMAIN auth
    /\ cred = "valid"
    /\ TokenSent(auth, userId, cred) = auth[userId].userToken

\* a step of save, list, get-config, toggle, delete or test for the caller
TokenHandlerStep(u, cred) ==
    \/ SaveSingle(u, cred, "ck2")
    \/ SaveOffset(u, cred, "ck2", 0)
    \/ ListOffset(u, cred)
    \/ GetConfigSingle(u, cred)
    \/ \E a \in BOOLEAN : ToggleSingle(u, cred, a)
    \/ \E c \in KnownIds : \E a \in BOOLEAN : ToggleOffset(u, cred, c, a)
    \/ DeleteSingle(u, cred)
    \/ \E c \in KnownIds : DeleteOffset(u, cred, c)
    \/ \E r \in TokenResponses : TestSingle(u, cred, r)
    \/ \E c \in KnownIds : \E r \in TokenResponses : TestOffset(u, cred, c, r)

\* C11: in worker.ts and part_003, a step of save, list, get-config,
\* toggle, delete or test whose request does not carry the token stored for
\* its userId answers 401 when userId or token is missing and 403
\* otherwise, with an error body, and leaves configs and auth records as
\* they were.
AuthRequired ==
    [][\A u \in Callers :
          \A cred \in Credentials :
              (~Authorized(u, cred) /\ TokenHandlerStep(u, cred))
                  => /\ resp'.status =
                            IF u = Missing \/ cred = "missing" THEN 401 ELSE 403
                     /\ resp'.body = ErrorBody
                     /\ kv' = kv
                     /\ auth' = auth]_vars

\* a delete with a wrong token was refused while the caller's config and
\* auth record are stored
AuthRequiredWitness ==
    /\ resp.status = 403
    /\ resp.request.op = "delete"
    /\ resp.request.userId \in DOMAIN auth
    /\ \E k \in DOMAIN kv : HasUserPrefix(k \o <<"x">>, resp.request.userId)

----------------------------------------------------------------------------
(* Properties of create (SpecCreate) *)

\* a create of part_004 or part_003 has just answered with a configId
CreateAnswered ==
    /\ resp.status = 200
    /\ resp.request.op = "create"
    /\ variant \in {"multi", "offset"}

\* the keys under which the configId just answered is stored
AnsweredKeys == {k \in DOMAIN kv : k[Len(k)] = resp.body.configId}

\* the key the configId just answered belongs under
AnsweredKey ==
    ConfigKey(IF resp.request.userId = Missing THEN Undefined ELSE resp.request.userId,
              resp.body.configId)

\* the record stored under it carries the server's configId, isActive and
\* createdAt
ServerFieldsStored ==
    /\ resp.body.configId = ConfigIdOf(nextId)
    /\ AnsweredKeys = {AnsweredKey}
    /\ kv[AnsweredKey].configId = resp.body.configId
    /\ kv[AnsweredKey].isActive = TRUE
    /\ kv[AnsweredKey].createdAt = now

Defective(body) ==
    \/ UserIdOf(body) \in {Missing, EmptyUserId}
    \/ \E f \in FormFields : ~Has(body, f) \/ Trim(body[f]) = ""

\* C13 (as claimed): a create whose body lacks userId, configName, stvUID
\* or cookie, or holds one of them empty after trimming, answers 400 and
\* leaves the store unchanged (the token, where there is one, being right).
CreateValidates ==
    [][\A body \in CreateRequests :
          (/\ Defective(body)
           /\ \/ CreateMulti(body)
              \/ \E o \in SampleOffsets : SaveConfigOffset(body, "valid", o)
              \/ SaveConfigSingle(body, "valid"))
              => /\ resp'.status = 400
                 /\ kv' = kv]_vars

----------------------------------------------------------------------------
(* Properties of toggle and delete *)

\* C14: in part_004, when two toggles of one config have completed in a
\* row with no other write to its record, before, between or inside them,
\* and the record is still as the second one wrote it, the stored isActive
\* is the value the first toggle read.
ToggleTwiceRestores ==
    (/\ tog.last.n = 2
     /\ tog.last.key \in DOMAIN kv
     /\ kv[tog.last.key] = tog.last.wrote)
        => IsActive(kv[tog.last.key]) = tog.last.orig

\* two toggles in a row have completed on a record a sweep had written
ToggleTwiceRestoresWitness ==
    /\ tog.pc = "idle"
    /\ tog.last.n = 2
    /\ tog.last.key \in DOMAIN kv
    /\ kv[tog.last.key] = tog.last.wrote
    /\ Has(kv[tog.last.key], "lastResult")
    /\ kv[tog.last.key].lastResult.kind = "success"

\* C15 (as claimed): in worker.ts and part_003, every delete a user sends
\* with the token the user holds answers 200, the config being stored or
\* not, and a delete of a config that is not stored leaves the store as it
\* is.
DeleteRepeatable ==
    [][\A u \in UserIds :
          /\ DeleteSingle(u, "valid")
                => /\ resp'.status = 200
                   /\ SingleKey(u) \notin DOMAIN kv => kv' = kv
          /\ \A c \in KnownIds :
                DeleteOffset(u, "valid", c)
                    => /\ resp'.status = 200
                       /\ ConfigKey(u, c) \notin DOMAIN kv => kv' = kv]_vars

\* C16 (as claimed): in worker.ts and part_003, a toggle sent with the
\* stored token that names a config with no stored record answers 404 with
\* an error body and leaves the store unchanged.
ToggleUnknownIs404 ==
    [][\A u \in UserIds :
          \A a \in BOOLEAN :
              /\ (Authorized(u, "valid") /\ SingleKey(u) \notin DOMAIN kv
                      /\ ToggleSingle(u, "valid", a))
                    => /\ resp'.status = 404
                       /\ resp'.body = ErrorBody
                       /\ kv' = kv
              /\ \A c \in KnownIds :
                    (Authorized(u, "valid") /\ ConfigKey(u, c) \notin DOMAIN kv
                        /\ ToggleOffset(u, "valid", c, a))
                      => /\ resp'.status = 404
                         /\ resp'.body = ErrorBody
                         /\ kv' = kv]_vars

----------------------------------------------------------------------------
\* the instant of the latest outbound call the scheduled sweep made for key k
CalledAt(k) == sweep["cron"].calls[k]

WasCalled(k) == k \in DOMAIN sweep["cron"].calls

\* C17 (as claimed): with the trigger firing once in every five-minute cycle,
\* once the sweep of a cycle has returned every stored active config has
\* been attempted in that cycle, whatever executionOffset it holds
CycleAttemptsActive ==
    (variant = "offset" /\ sweep["cron"].pc = "idle" /\ SweepsRun = Cycle(now) + 1)
        => \A k \in DOMAIN kv :
              (IsValidJson(kv[k]) /\ IsActive(kv[k]))
                  => (WasCalled(k) /\ Cycle(CalledAt(k)) = Cycle(now))

\* the scheduled sweep makes its outbound call for the config it holds
CallsOut == \E r \in ClockResponses : SweepFetch("cron", r)

----------------------------------------------------------------------------
\* JSON.stringify(...) of an object was sent, not a bare string
IsJsonObject(body) == "plain" \notin DOMAIN body

\* C19 (as claimed): every response with an error status, the answer to an
\* unknown endpoint included, carries a JSON body with an error field
ErrorsCarryJsonError ==
    resp.status >= 400 => (IsJsonObject(resp.body) /\ Has(resp.body, "error"))

----------------------------------------------------------------------------
\* C20: normalizePath is idempotent: applied to its own result it returns
\* that result again, for every path and in both analytics handlers
NormalizeIdempotent ==
    \A i \in 2..Len(norm.outs) : norm.outs[i] = norm.outs[1]

\* a path that normalization changed (decoded, re-encoded, rooted and closed
\* with a slash) and whose result has been normalized again
NormalizeIdempotentWitness ==
    /\ norm.impl = "stats"
    /\ Len(norm.outs) = 2
    /\ norm.outs[1] # norm.input
    /\ Len(norm.outs[1]) > Len(norm.input) + 2

----------------------------------------------------------------------------
\* s ends in "." followed by n or more alphanumerics and nothing else
EndsInExtension(s, n) ==
    \E i \in 1..Len(s) :
        /\ s[i] = Dot
        /\ Len(s) - i >= n
        /\ \A j \in (i + 1)..Len(s) : s[j] \in (48..57) \cup (65..90) \cup (97..122)

NotSlash(c) == c # Slash

\* the result of rank.js normalizePath for the input, once it was applied
FirstResult == norm.outs[1]

RankApplied == norm.impl = "rank" /\ Len(norm.outs) >= 1

\* the trailing-slash rule with extensions of n or more alphanumerics: the
\* result keeps the last character of a path that ends in "/" or in an
\* extension, and ends in an appended "/" otherwise
TrailingRule(n) ==
    LET path == TrimPath(norm.input)
        out == FirstResult
    IN  IF EndsWithSlash(path) \/ EndsInExtension(path, n)
        THEN out[Len(out)] = path[Len(path)]
        ELSE out[Len(out)] = Slash /\ Len(SelectSeq(out, NotSlash)) < Len(out)

\* C21 (amended): normalizePath returns "/" for an input that is empty after
\* trimming; otherwise the result starts with "/", has no repeated slash,
\* keeps the other characters of the path, and a trailing "/" is appended
\* unless the path ends in "/" or in "." followed by 1 or more alphanumerics
NormalizeShape ==
    RankApplied =>
        LET path == TrimPath(norm.input)
            out == FirstResult
        IN  IF path = <<>> THEN out = <<Slash>>
            ELSE /\ Head(out) = Slash
                 /\ \A i \in 1..(Len(out) - 1) : ~(out[i] = Slash /\ out[i + 1] = Slash)
                 /\ SelectSeq(out, NotSlash) = SelectSeq(path, NotSlash)
                 /\ TrailingRule(1)

\* a path with a repeated slash and no extension got its leading and its
\* trailing slash
NormalizeShapeWitness ==
    /\ RankApplied
    /\ \E i \in 1..(Len(norm.input) - 1) :
          norm.input[i] = Slash /\ norm.input[i + 1] = Slash
    /\ Head(norm.input) # Slash
    /\ norm.input[Len(norm.input)] \notin {Slash, 32}
    /\ FirstResult[Len(FirstResult)] = Slash
    /\ Len(FirstResult) = Len(norm.input) + 1

\* C21 (as claimed): the trailing "/" is appended unless the path ends in "/"
\* or in "." followed by 2 or more alphanumerics
TrailingSlashUnlessLongExt ==
    (RankApplied /\ TrimPath(norm.input) # <<>>) => TrailingRule(2)

----------------------------------------------------------------------------
\* what the sub-query for a column came back with, taken by itself
OwnValue(column, key) ==
    IF call.got[column].ok THEN getNumber(UnwrapRowsVisit(call.got[column].result), key)
    ELSE 0

\* a visit call went through its three queries and was answered
VisitAnswered ==
    /\ call.handler = "visit" /\ call.pc = "done" /\ call.request.bound
    /\ resp # NoResponse /\ resp.request.op = "visit"

\* C22 (as claimed): a visit call answers 200 whatever sub-query failed, and
\* each of page_pv, site_pv and site_uv is the value of its own query, or 0
\* when that query failed
AggregatesIndependent ==
    VisitAnswered =>
        /\ resp.status = 200
        /\ resp.body.page_pv = OwnValue("page_pv", "pv")
        /\ resp.body.site_pv = OwnValue("site_pv", "pv")
        /\ resp.body.site_uv = OwnValue("site_uv", "uv")

\* a header that carries no value
Absent(h) == h \in {"null", ""}

IsWrite(entry) == entry.op = "write"

\* a read of the total of one page
IsPageRead(entry) == entry.op = "query" /\ entry.column = "page_pv"

\* the write comes first in the log of the call, is the only one, and carries
\* the canonical path, the visitor id and the weight 1; the per-page read
\* names the same path
WroteOnceFirst ==
    /\ Len(SelectSeq(call.log, IsWrite)) = 1
    /\ IsWrite(call.log[1])
    /\ call.log[1].path = normalizePath("rank", call.log[1].path)
    /\ call.log[1].path = normalizePath("rank", resolvePath(call.request.page))
    /\ call.log[1].visitor = call.visitorId
    /\ call.log[1].weight = 1
    /\ \A i \in 1..Len(call.log) :
          IsPageRead(call.log[i]) => call.log[i].path = call.log[1].path

\* C24 (amended): a visit call that finds the ANALYTICS binding writes exactly
\* one view event (canonical path, visitor id, weight 1) before it reads any
\* total, reads the page total for the same path, and is answered 200 whether
\* the write failed or not; the visitor id is "anonymous" exactly when
\* neither the client IP nor the user-agent has a value
VisitWritesOnce ==
    (call.handler = "visit" /\ call.request.bound) =>
        /\ call.visitorId = Anonymous
              <=> (Absent(call.request.ip) /\ Absent(call.request.ua))
        /\ call.pc = "write" => call.log = <<>>
        /\ call.pc # "write" => WroteOnceFirst
        /\ (call.pc = "done" /\ resp # NoResponse) => resp.status = 200

\* a call for the page "g/g" without IP and user-agent whose write failed is
\* answered
VisitWritesOnceWitness ==
    /\ call.handler = "visit" /\ call.pc = "done" /\ call.request.bound
    /\ call.request.page = <<103, 47, 103>>
    /\ call.request.ip = "null" /\ call.request.ua = "null"
    /\ ~call.log[1].ok
    /\ call.log[1].path = <<47, 97, 112, 105, 47, 103, 47, 103, 47>>
    /\ call.log[1].visitor = Anonymous
    /\ resp.status = 200

\* C24 (as claimed): every visit call that was answered wrote exactly one
\* view event
EveryVisitWrites ==
    (call.handler = "visit" /\ call.pc = "done") =>
        Len(SelectSeq(call.log, IsWrite)) = 1

RankAnswered ==
    /\ call.handler = "rank" /\ call.got.pages.ok
    /\ resp # NoResponse /\ resp.request.op = "rank"

\* the rows the page query of the answered call returned
EngineRows == unwrapRows(call.got.pages.result)

\* the views the rows record under stored paths of one normalized path
ViewsOf(path) ==
    LET RECURSIVE Sum(_)
        Sum(i) ==
            IF i = 0 THEN 0
            ELSE Sum(i - 1)
                 + (IF normalizePath("rank", EngineRows[i].path) = path
                    THEN EngineRows[i].pv.number ELSE 0)
    IN  Sum(Len(EngineRows))

\* C23 (as claimed): the pages of a rank response are sorted by pv
\* descending, no two entries have the same normalized path, every entry
\* carries the views of all rows of its normalized path, and summary.total
\* is the sum the total query returned
RankedDistinctPages ==
    RankAnswered =>
        LET pages == resp.body.pages
        IN  /\ \A i \in 1..(Len(pages) - 1) : pages[i].pv >= pages[i + 1].pv
            /\ \A i, j \in 1..Len(pages) : i # j => pages[i].path # pages[j].path
            /\ \A i \in 1..Len(pages) : pages[i].pv = ViewsOf(pages[i].path)
            /\ call.got.total.ok =>
                  resp.body.summary.total
                      = getNumber(unwrapRows(call.got.total.result), "pv")

\* C25 (as claimed): the lastResult of every stored record embeds at most
\* 100 characters of the body of the remote response, whether the call
\* succeeded or failed
LastResultBounded ==
    \A k \in DOMAIN kv :
        (IsValidJson(kv[k]) /\ Has(kv[k], "lastResult") /\ Has(kv[k].lastResult, "body"))
            => kv[k].lastResult.body <= MaxEmbedded

\* the executionOffset stored under a key
StoredOffset(store, k) == store[k].executionOffset

\* C26: every record of part_003 holds an integer executionOffset of at least
\* 0 and below the 60 seconds of the cycle the due check counts in
OffsetInCycle ==
    variant = "offset" =>
        \A k \in DOMAIN kv :
            /\ Has(kv[k], "executionOffset")
            /\ StoredOffset(kv, k) \in Nat
            /\ StoredOffset(kv, k) < SecondsPerMinute

\* C26: no step changes the executionOffset of a record that stays stored
OffsetNeverChanges ==
    [][\A k \in DOMAIN kv \cap DOMAIN kv' :
          StoredOffset(kv', k) = StoredOffset(kv, k)]_vars

\* C26: the offset is in the cycle and does not change
OffsetFixedAtCreation == []OffsetInCycle /\ OffsetNeverChanges

\* a record created with the offset 1 was swept and written back
OffsetFixedAtCreationWitness ==
    /\ variant = "offset"
    /\ \E k \in DOMAIN kv :
          /\ StoredOffset(kv, k) = 1
          /\ Has(kv[k], "lastResult")
          /\ kv[k].lastResult.kind = "success"

DueChecked == call.handler = "due" /\ call.pc = "done"

\* the position in the cycle of the instant k cycles away from the checked one
ShiftedPosition == (call.time + call.shift * SecondsPerMinute) % SecondsPerMinute

\* C27 (amended): a config due at one instant is at a position equal to its
\* offset at every instant a whole number of cycles away, and it is due
\* there too when the other instant is not earlier
DuePeriodicForward ==
    (DueChecked /\ call.dueHere) =>
        /\ ShiftedPosition = call.config.executionOffset
        /\ call.shift >= 0 => call.dueThere

\* an executed config due five minutes after its last execution and one
\* cycle later
DuePeriodicForwardWitness ==
    /\ DueChecked
    /\ Has(call.config, "lastExecuted")
    /\ call.shift = 1
    /\ call.dueHere /\ call.dueThere

\* C27 (as claimed): a config due at one instant is due at every instant a
\* whole number of cycles away
DuePeriodic == (DueChecked /\ call.dueHere) => call.dueThere

AbsDiff(a, b) == IF a >= b THEN a - b ELSE b - a

Smaller(a, b) == IF a <= b THEN a ELSE b

\* min(|currentPos - target|, W - |currentPos - target|)
ModularDistance(currentPos, target) ==
    Smaller(AbsDiff(currentPos, target), SecondsPerMinute - AbsDiff(currentPos, target))

\* half the cycle, which is also the half-width of the window
HalfCycle == SecondsPerMinute \div 2

\* C28 (as claimed): the modular distance between the position of the sweep
\* and the offset of the config is at most W/2, and a config that passes the
\* elapsed-time guard is due when its window reaches the position across the
\* cycle boundary, where the plain difference is more than W/2
WindowCrossesBoundary ==
    DueChecked =>
        LET currentPos == call.time % SecondsPerMinute
            target == call.config.executionOffset
        IN  /\ ModularDistance(currentPos, target) <= HalfCycle
            /\ (/\ ShouldExecuteNow(call.config, call.time)
                /\ AbsDiff(currentPos, target) > HalfCycle)
                  => call.dueHere

\* the value under a path of field names, null where the path breaks off
ValueAt(v, names) ==
    IF names = <<>> THEN v
    ELSE IF Len(names) = 1 THEN Field(v, names[1])
    ELSE Field(Field(v, names[1]), names[2])

\* the places of the row array, in the order of the claim
RowPlaces == << <<>>, <<"result">>, <<"result", "data">>, <<"results">>, <<"data">>, <<"rows">> >>

IsRowPlace(v, i) == IsArray(ValueAt(v, RowPlaces[i]))

\* C29 (as claimed): unwrapRows returns the array at the first of the places
\* top level, .result, .result.data, .results, .data, .rows that holds an
\* array, and the empty list when none does, in rank.js and in visit.js
UnwrapFindsRows ==
    (call.handler = "unwrap" /\ call.pc = "done") =>
        IF \E i \in 1..Len(RowPlaces) : IsRowPlace(call.result, i)
        THEN LET first == CHOOSE i \in 1..Len(RowPlaces) :
                              /\ IsRowPlace(call.result, i)
                              /\ \A j \in 1..(i - 1) : ~IsRowPlace(call.result, j)
             IN  call.rows = ValueAt(call.result, RowPlaces[first]).items
        ELSE call.rows = <<>>

IsQuestion(c) == c = Question

IsQuote(c) == c = Quote

NotQuote(c) == c # Quote

\* the placeholders of the query
Placeholders(sql) == Len(SelectSeq(sql, IsQuestion))

\* lit is a single-quoted literal of chars in which every single quote is
\* doubled: quotes at both ends, between them the characters of chars in
\* order, twice as many quotes as chars has, and the quotes in pairs
IsQuotedLiteral(lit, chars) ==
    /\ Len(lit) = Len(chars) + Len(SelectSeq(chars, IsQuote)) + 2
    /\ lit[1] = Quote /\ lit[Len(lit)] = Quote
    /\ LET inner == SubSeq(lit, 2, Len(lit) - 1)
       IN  /\ SelectSeq(inner, NotQuote) = SelectSeq(chars, NotQuote)
           /\ \A i \in 1..Len(chars) :
                 LET at == i + Len(SelectSeq(SubSeq(chars, 1, i - 1), IsQuote)) + 1
                 IN  IF chars[i] = Quote
                     THEN lit[at] = Quote /\ lit[at + 1] = Quote
                     ELSE lit[at] = chars[i]

\* text is the rendering the claim gives the parameter
IsRendering(text, value) ==
    IF value.type = "string" THEN IsQuotedLiteral(text, value.chars)
    ELSE IF value.type = "number" THEN text = Digits(value.number)
    ELSE IF value.type = "infinity" THEN IsQuotedLiteral(text, InfinityWord)
    ELSE text = NullWord

\* out is query with its placeholders replaced in order by renderings of the
\* parameters from the index-th on, nothing of a rendering read again
RECURSIVE ReplacedInOrder(_, _, _, _)
ReplacedInOrder(out, query, params, index) ==
    IF query = <<>> THEN out = <<>>
    ELSE IF Head(query) # Question
    THEN /\ out # <<>> /\ Head(out) = Head(query)
         /\ ReplacedInOrder(Tail(out), Tail(query), params, index)
    ELSE \E n \in 1..Len(out) :
            /\ IsRendering(SubSeq(out, 1, n), params[index])
            /\ ReplacedInOrder(SubSeq(out, n + 1, Len(out)), Tail(query), params,
                               index + 1)

\* a call that gives every placeholder its parameter
EveryPlaceholderHasParam ==
    /\ call.handler = "sql" /\ call.pc = "done"
    /\ Len(call.params) >= 1
    /\ Placeholders(call.sql) <= Len(call.params)

\* C30: formatSqlWithParams replaces each placeholder, in order, by the
\* rendering of its parameter: a string as a single-quoted literal with
\* every single quote doubled, a finite number unquoted, and no substituted
\* value is scanned for placeholders again
PlaceholdersReplacedInOrder ==
    EveryPlaceholderHasParam =>
        ReplacedInOrder(call.finalSql, call.sql, call.params, 1)

\* the query "?a?" with the parameters "a'?" and 12 became "'a''?'a12"
PlaceholdersReplacedInOrderWitness ==
    /\ call.handler = "sql" /\ call.pc = "done"
    /\ call.sql = <<Question, Letter, Question>>
    /\ call.params = <<Str(<<Letter, Quote, Question>>), Number(12)>>
    /\ call.finalSql = <<Quote, Letter, Quote, Quote, Question, Quote, Letter, 49, 50>>

----------------------------------------------------------------------------
(* Sweeps beside toggles and deletes (SpecRace) *)

\* C31 (as claimed): in every step in which a sweep writes a stored record,
\* the stored isActive stays what it was: it changes through toggle and
\* create alone, and no sweep makes an inactive config active again
SweepKeepsIsActive ==
    [][\A k \in DOMAIN kv \cap DOMAIN kv' :
          (PutsNow(k) # {} /\ IsValidJson(kv[k]) /\ IsValidJson(kv'[k]))
              => IsActive(kv'[k]) = IsActive(kv[k])]_vars

\* C32 (as claimed): a key that is absent from the store, which a delete has
\* removed, is not stored again by the write of a sweep
DeletedStaysAbsent ==
    [][\A k \in DOMAIN kv' : k \notin DOMAIN kv => PutsNow(k) = {}]_vars

----------------------------------------------------------------------------
(* Logins side by side (SpecLogin) *)

\* C33 (as claimed): every pair of userId as sent and token that a login
\* has answered passes verifyUserAuth, no authenticated request carrying
\* such a pair is answered 403, and logins for one userId answer one token,
\* also when first logins for it overlap (no delete runs here)
LoginTokensStayValid ==
    /\ \A i \in call.issued : VerifyUserAuth(auth, i.sent, i.token)
    /\ resp.status = 403 => resp.request.op # "list"
    /\ \A i, j \in call.issued :
          TrimmedUserId(i.sent) = TrimmedUserId(j.sent) => i.token = j.token

----------------------------------------------------------------------------
(* Writes behind the token gate (SpecToken) *)

\* the config of user u under key k is stored and decodes
StoredConfig(k) == k \in DOMAIN kv /\ IsValidJson(kv[k])

\* C34 (as claimed): in worker.ts and part_003, a toggle sent with the
\* stored token for a stored config answers 200 and leaves the stored
\* isActive equal to the requested value, and a save sent with the stored
\* token answers 200 and stores an active record: the body is read again
\* after the identity was read from it
ValidWritesSucceed ==
    [][\A u \in UserIds :
          Authorized(u, "valid")
              => /\ \A a \in BOOLEAN :
                       (StoredConfig(SingleKey(u)) /\ ToggleSingle(u, "valid", a))
                           => /\ resp'.status = 200
                              /\ kv'[SingleKey(u)].isActive = a
                 /\ \A a \in BOOLEAN : \A c \in KnownIds :
                       (StoredConfig(ConfigKey(u, c)) /\ ToggleOffset(u, "valid", c, a))
                           => /\ resp'.status = 200
                              /\ kv'[ConfigKey(u, c)].isActive = a
                 /\ SaveSingle(u, "valid", "ck2")
                       => /\ resp'.status = 200
                          /\ kv'[SingleKey(u)].isActive = TRUE
                 /\ SaveOffset(u, "valid", "ck2", 0) => resp'.status = 200]_vars

----------------------------------------------------------------------------
(* Delete and login again (SpecRevoke) *)

\* C35: in worker.ts, a delete that succeeds leaves neither the config
\* record nor the auth record of its user, every later request to an
\* authenticated endpoint with the userId and token of that delete is
\* answered 403 and changes nothing, and an auth record for a user comes
\* into being through a login alone
DeleteRevokesToken ==
    [][/\ \A u \in UserIds :
             (DeleteTracked(u, "valid") /\ resp'.status = 200)
                 => /\ SingleKey(u) \notin DOMAIN kv'
                    /\ u \notin DOMAIN auth'
       /\ \A r \in call.revoked :
             /\ \A e \in Endpoints : RevokedRequest(r, e) => resp'.status = 403
             /\ RevokedDelete(r) => resp'.status = 403 /\ kv' = kv /\ auth' = auth
       /\ \A u \in DOMAIN auth' \ DOMAIN auth :
             /\ resp'.status = 200
             /\ resp'.request = [op |-> "login", userId |-> u]]_vars

\* the user of a succeeded delete has logged in again, and a toggle with
\* the userId and token of that delete has been refused
DeleteRevokesTokenWitness ==
    /\ resp.status = 403
    /\ resp.request.op = "toggle"
    /\ resp.request.userId \in DOMAIN auth
    /\ \E r \in call.revoked : r.userId = resp.request.userId

----------------------------------------------------------------------------
(* The one record of a user in worker.ts (SpecSingle) *)

\* the stored records that carry userId u
RecordsOf(store, u) ==
    {k \in DOMAIN store : IsValidJson(store[k]) /\ store[k].userId = u}

----------------------------------------------------------------------------
(* ctx.rateLimit (SpecRate) *)

\* the timestamps claimed are pairwise at least d apart
ClaimsApart(claims, d) ==
    \A i, j \in 1..Len(claims) :
        i < j => (claims[j] - claims[i] >= d /\ claims[j] - claims[i] >= 0)

\* no timestamp is claimed twice
ClaimsDistinct(claims) ==
    \A i, j \in 1..Len(claims) : i # j => claims[i] # claims[j]

\* C37 (amended): for one key and a positive interval, whatever the threads
\* that call rateLimit do side by side, the timestamps claimed by any two
\* calls that return are at least interval milliseconds apart, no two calls
\* claim the same timestamp, and the shared timer never decreases
RateLimitSpacedPositive ==
    [][call.interval > 0
          => /\ ClaimsApart(call'.claims, call.interval)
             /\ ClaimsDistinct(call'.claims)
             /\ call'.timer >= call.timer]_vars

\* with a positive interval, two threads have claimed a timestamp each, the
\* later one after it had to sleep
RateLimitSpacedPositiveWitness ==
    /\ call.interval > 0
    /\ Len(call.claims) >= 2
    /\ call.claims[2] >= call.claims[1] + SleepPad

\* C37 (as claimed): the same for every non-negative interval, 0 included
RateLimitSpaced ==
    [][/\ ClaimsApart(call'.claims, call.interval)
       /\ ClaimsDistinct(call'.claims)
       /\ call'.timer >= call.timer]_vars

----------------------------------------------------------------------------
(* ctx.rateLimit under a fair scheduler (SpecRateFair) *)

\* C38 (as claimed): while the clock advances and every thread in a call
\* keeps being scheduled, every call of rateLimit returns, also while the
\* other threads keep calling rateLimit on the key
EveryCallReturns ==
    \A t \in RateThreads :
        (call.threads[t].pc # "idle") ~> (call.threads[t].pc = "idle")

====
